---------------------------- MODULE Spec2Model ----------------------------
(***************************************************************************)
(* Oncology registry copilot: the field-inference and evaluation engine.   *)
(*                                                                         *)
(* Text is a sequence of one-character strings.  Offsets are Python's:     *)
(* 0-based, half-open, so the character at offset k of t is t[k + 1].      *)
(* An optional value is a sequence of length 0 (None) or 1 (the value).    *)
(***************************************************************************)
EXTENDS Integers, Sequences, FiniteSets, TLC

VARIABLES
    op,          \* the last call made: "input" before any
    note_text,   \* the note a per-note operation works on
    entities,    \* the recognizer's entities for that note
    field,       \* the field the last call was about
    pred,        \* the FieldPrediction an extractor returned (or Raise)
    snippet,     \* what evidence_span returned for pred
    record,      \* what map_note_to_fields returned (or Raise)
    signal,      \* what stage_signal_present returned
    value,       \* the raw value given to normalize_for_field
    norm1,       \* normalize_for_field(field, value)
    norm2,       \* normalize_for_field(field, norm1)
    records,     \* the rows of the data frame under evaluation
    tally,       \* compute_metrics' counters per field when its loop ends
    metrics,     \* what compute_metrics returned
    errors,      \* what generate_error_report returned
    df_notes,    \* the rows of the notes CSV, in file order
    entities_map,\* load_entities_map's dict: (case_id, note_id) -> record
    out,         \* the rows generate_preabstract_csv wrote (or Raise)
    pnorm,       \* pipeline.normalize_for_field(field, value)
    summary      \* what pipeline.evaluate_preabstract returned

vars == <<op, note_text, entities, field, pred, snippet, record, signal,
          value, norm1, norm2, records, tally, metrics, errors,
          df_notes, entities_map, out, pnorm, summary>>

noteVars == <<note_text, entities, pred, snippet, record, signal>>
normVars == <<value, norm1, norm2>>
evalVars == <<records, tally, metrics, errors>>
pipeVars == <<df_notes, entities_map, out, pnorm, summary>>

---------------------------------------------------------------------------
(* Optional values and small arithmetic                                    *)

None == <<>>
Some(x) == <<x>>
IsNone(o) == o = <<>>
Get(o) == o[1]

Max(a, b) == IF a >= b THEN a ELSE b
Min(a, b) == IF a <= b THEN a ELSE b
MinOf(S) == CHOOSE x \in S : \A y \in S : x <= y

---------------------------------------------------------------------------
(* Characters: str.lower / str.upper / str.isalnum and the classes \w \s \d *)

UpperLetters == <<"A","B","C","D","E","F","G","H","I","J","K","L","M",
                  "N","O","P","Q","R","S","T","U","V","W","X","Y","Z">>
LowerLetters == <<"a","b","c","d","e","f","g","h","i","j","k","l","m",
                  "n","o","p","q","r","s","t","u","v","w","x","y","z">>
UpperSet == {UpperLetters[i] : i \in 1..26}
LowerSet == {LowerLetters[i] : i \in 1..26}
DigitSet == {"0","1","2","3","4","5","6","7","8","9"}
SpaceSet == {" ", "\t", "\n", "\r"}

LowerOf == [c \in UpperSet |-> LowerLetters[CHOOSE i \in 1..26 : UpperLetters[i] = c]]
UpperOf == [c \in LowerSet |-> UpperLetters[CHOOSE i \in 1..26 : LowerLetters[i] = c]]

\* One letter outside ASCII, each written as a one-element token: U+0130,
\* the dotted capital I, whose str.lower() is the two characters "i" U+0307.
DotI == "U+0130"
DotAbove == "U+0307"

\* the one-character case mapping (re.IGNORECASE compares characters by it)
LowerChar(c) == IF c \in UpperSet THEN LowerOf[c] ELSE IF c = DotI THEN "i" ELSE c
UpperChar(c) == IF c \in LowerSet THEN UpperOf[c] ELSE c
IsAlnum(c) == c \in UpperSet \/ c \in LowerSet \/ c \in DigitSet \/ c = DotI
IsWord(c) == IsAlnum(c) \/ c = "_"
IsSpace(c) == c \in SpaceSet
IsDigit(c) == c \in DigitSet

Fold(t) == [i \in 1..Len(t) |-> LowerChar(t[i])]

\* str.lower(): the result is longer than t by one character per U+0130
RECURSIVE Lower(_)
Lower(t) ==
    LET wide == {i \in 1..Len(t) : t[i] = DotI}
    IN  IF wide = {} THEN Fold(t)
        ELSE LET w == MinOf(wide)
             IN  Fold(SubSeq(t, 1, w - 1)) \o <<"i", DotAbove>> \o Lower(SubSeq(t, w + 1, Len(t)))
Upper(t) == [i \in 1..Len(t) |-> UpperChar(t[i])]

---------------------------------------------------------------------------
(* Strings: slicing, find, strip, startswith, and the regex anchor \b       *)

\* t[a:b] with Python's handling of negative and out-of-range indices
SliceIndex(n, k) == IF k < 0 THEN Max(0, n + k) ELSE Min(n, k)
Slice(t, a, b) ==
    LET lo == SliceIndex(Len(t), a)
        hi == SliceIndex(Len(t), b)
    IN  IF lo >= hi THEN <<>> ELSE SubSeq(t, lo + 1, hi)

\* kw occurs in t at offset i
OccursAt(t, kw, i) ==
    /\ i >= 0
    /\ i + Len(kw) <= Len(t)
    /\ \A j \in 1..Len(kw) : t[i + j] = kw[j]

\* t.find(kw)
Find(t, kw) ==
    LET hits == {i \in 0..(Len(t) - Len(kw)) : OccursAt(t, kw, i)}
    IN  IF hits = {} THEN -1 ELSE MinOf(hits)

\* kw in t
Contains(t, kw) == \E i \in 0..(Len(t) - Len(kw)) : OccursAt(t, kw, i)

StartsWith(t, kw) == OccursAt(t, kw, 0)

\* t.strip(), t.rstrip(): cut at the first and the last character that is no whitespace
Solid(t) == {i \in 1..Len(t) : ~IsSpace(t[i])}
MaxOf(S) == CHOOSE x \in S : \A y \in S : x >= y
RStrip(t) == IF Solid(t) = {} THEN <<>> ELSE SubSeq(t, 1, MaxOf(Solid(t)))
Strip(t) == IF Solid(t) = {} THEN <<>> ELSE SubSeq(t, MinOf(Solid(t)), MaxOf(Solid(t)))

\* the regex anchor \b at offset k: exactly one side is a word character
WordAt(t, k) == k >= 0 /\ k < Len(t) /\ IsWord(t[k + 1])
Boundary(t, k) == WordAt(t, k - 1) # WordAt(t, k)

\* the offset after the run of characters of class S that starts at offset k
RunEnd(t, S, k) ==
    IF k >= Len(t) THEN k
    ELSE MinOf({j \in k..Len(t) : j = Len(t) \/ t[j + 1] \notin S})

(* A regex substitution that scans the text once, left to right, is a     *)
(* machine that reads one character at a time: Step gives what it emits   *)
(* and whether it is inside a match afterwards.  Scan runs it over         *)
(* t[lo..hi] by halves.                                                    *)
Step(kind, inside, c) ==
    CASE kind = "newlines" ->
           \* "\r\n" -> "\n", then "\r" -> "\n": inside = just after a "\r"
           IF c = "\r" THEN [out |-> <<"\n">>, inside |-> TRUE]
           ELSE IF c = "\n" /\ inside THEN [out |-> <<>>, inside |-> FALSE]
           ELSE [out |-> <<c>>, inside |-> FALSE]
      [] kind = "lines" ->
           \* r"\n\s*" -> " ": inside = in the whitespace after a "\n"
           IF inside /\ IsSpace(c) THEN [out |-> <<>>, inside |-> TRUE]
           ELSE IF c = "\n" THEN [out |-> <<" ">>, inside |-> TRUE]
           ELSE [out |-> <<c>>, inside |-> FALSE]
      [] kind = "blanks" ->
           \* r"[ \t]+" -> " ": inside = in a run of blanks
           IF c \in {" ", "\t"}
           THEN [out |-> IF inside THEN <<>> ELSE <<" ">>, inside |-> TRUE]
           ELSE [out |-> <<c>>, inside |-> FALSE]
      [] kind = "whitespace" ->
           \* r"\s+" -> " ": inside = in a run of whitespace
           IF IsSpace(c)
           THEN [out |-> IF inside THEN <<>> ELSE <<" ">>, inside |-> TRUE]
           ELSE [out |-> <<c>>, inside |-> FALSE]

RECURSIVE Scan(_, _, _, _, _)
Scan(kind, t, lo, hi, inside) ==
    IF lo > hi THEN [out |-> <<>>, inside |-> inside]
    ELSE IF lo = hi THEN Step(kind, inside, t[lo])
    ELSE LET mid == (lo + hi) \div 2
             left == Scan(kind, t, lo, mid, inside)
             right == Scan(kind, t, mid + 1, hi, left.inside)
         IN  [out |-> left.out \o right.out, inside |-> right.inside]

Sub(kind, t) == Scan(kind, t, 1, Len(t), FALSE).out

---------------------------------------------------------------------------
(* field_mapping.py: FieldPrediction and its evidence snippet              *)

FieldPrediction(v, s, e) == [value |-> v, evidence_start |-> s, evidence_end |-> e]

\* an empty prediction whose offsets default to 0 instead of None
ZeroPrediction == FieldPrediction(None, Some(0), Some(0))

\* FieldPrediction(value=None, evidence_start=None, evidence_end=None)
EmptyPrediction == FieldPrediction(None, None, None)

\* what a call gives when it raises instead of returning
Raise == [exception |-> "raise"]
IsRaise(r) == DOMAIN r = {"exception"}

BaseWindow == 40
WindowCap == 80
DefaultMaxLen == 160
Ellipsis == <<".", ".", ".">>

\* "while start > left_limit and start < len(note_text) and note_text[start].isalnum()"
RECURSIVE ExpandLeft(_, _, _)
ExpandLeft(t, start, left_limit) ==
    IF start > left_limit /\ start < Len(t) /\ IsAlnum(t[start + 1])
    THEN ExpandLeft(t, start - 1, left_limit)
    ELSE start

\* "while end < right_limit and end > 0 and end <= len(note_text) and ... [end - 1].isalnum()"
RECURSIVE ExpandRight(_, _, _)
ExpandRight(t, end, right_limit) ==
    IF end < right_limit /\ end > 0 /\ end <= Len(t) /\ IsAlnum(t[end])
    THEN ExpandRight(t, end + 1, right_limit)
    ELSE end

\* a variant that keeps the base window on the left
WindowStartBase(t, es) == Max(0, es - BaseWindow)

WindowStart(t, es) == ExpandLeft(t, Max(0, es - BaseWindow), Max(0, es - WindowCap))
WindowEnd(t, ee) == ExpandRight(t, Min(Len(t), ee + BaseWindow), Min(Len(t), ee + WindowCap))

\* s.replace("\r\n", "\n").replace("\r", "\n")
NormalizeNewlines(t) == Sub("newlines", t)

\* re.sub(r"\n\s*", " ", s)
JoinLines(t) == Sub("lines", t)

\* re.sub(r"[ \t]+", " ", s)
CollapseBlanks(t) == Sub("blanks", t)

\* "if len(s) > max_len: s = s[: max_len - 3].rstrip() + '...'"
Truncate(s, max_len) ==
    IF Len(s) > max_len THEN RStrip(Slice(s, 0, max_len - 3)) \o Ellipsis ELSE s

\* a variant that returns an empty snippet, not None, for a prediction without offsets
evidence_span_blank(p, t, max_len) ==
    IF IsNone(p.evidence_start) \/ IsNone(p.evidence_end) THEN Some(<<>>)
    ELSE LET start == WindowStart(t, Get(p.evidence_start))
             end == WindowEnd(t, Get(p.evidence_end))
             snippet_raw == Slice(t, start, end)
             s == Strip(CollapseBlanks(JoinLines(NormalizeNewlines(snippet_raw))))
         IN  Some(Truncate(s, max_len))

\* FieldPrediction.evidence_span(note_text, max_len): None or Some(snippet)
evidence_span(p, t, max_len) ==
    IF IsNone(p.evidence_start) \/ IsNone(p.evidence_end) THEN None
    ELSE LET start == WindowStart(t, Get(p.evidence_start))
             end == WindowEnd(t, Get(p.evidence_end))
             snippet_raw == Slice(t, start, end)
             s == Strip(CollapseBlanks(JoinLines(NormalizeNewlines(snippet_raw))))
         IN  Some(Truncate(s, max_len))

---------------------------------------------------------------------------
(* field_mapping.py: entities and _pick_best                               *)
(* An entity is a dict: a function from the keys it has to optional        *)
(* values; a key that is present may hold None.                            *)

\* ent.get(key, default)
EntGet(ent, key, default) == IF key \in DOMAIN ent THEN ent[key] ELSE default

\* e.get("confidence", 0.0)
Confidence(ent) == EntGet(ent, "confidence", Some(0))

\* "candidates = [e for e in entities if condition(e)]"
\* ok[i] tells whether condition(ents[i]) holds
Candidates(ents, ok) ==
    LET keep == {i \in 1..Len(ents) : ok[i]}
        nth(k) == CHOOSE i \in keep : Cardinality({j \in keep : j < i}) = k - 1
    IN  [k \in 1..Cardinality(keep) |-> ents[nth(k)]]

\* a variant that keeps the last of the candidates of maximal confidence
LastMax(cands) ==
    IF Len(cands) = 1 THEN cands[1] ELSE
    LET i == CHOOSE k \in 1..Len(cands) :
                 /\ \A j \in 1..Len(cands) : Get(Confidence(cands[j])) <= Get(Confidence(cands[k]))
                 /\ \A j \in (k + 1)..Len(cands) : Get(Confidence(cands[j])) < Get(Confidence(cands[k]))
    IN  cands[i]

\* max(candidates, key=...): the first candidate no later one beats
FirstMax(cands) ==
    IF Len(cands) = 1 THEN cands[1] ELSE
    LET i == CHOOSE k \in 1..Len(cands) :
                 /\ \A j \in 1..Len(cands) : Get(Confidence(cands[j])) <= Get(Confidence(cands[k]))
                 /\ \A j \in 1..(k - 1) : Get(Confidence(cands[j])) < Get(Confidence(cands[k]))
    IN  cands[i]

\* comparing a None confidence with another raises TypeError
MaxRaises(cands) ==
    Len(cands) >= 2 /\ \E j \in 1..Len(cands) : IsNone(Confidence(cands[j]))

\* _pick_best raises when the condition raises on an entity or max() cannot compare
\* (bad[i] tells whether condition(ents[i]) raises)
PickBestRaises(ents, ok, bad) ==
    \/ \E i \in 1..Len(ents) : bad[i]
    \/ MaxRaises(Candidates(ents, ok))

\* _pick_best: None or Some(entity)
PickBest(ents, ok) ==
    LET candidates == Candidates(ents, ok)
    IN  IF candidates = <<>> THEN None ELSE Some(FirstMax(candidates))

\* FieldPrediction(value=best["text"], evidence_start=best["start"], evidence_end=best["end"])
FromEntity(best) ==
    IF {"text", "start", "end"} \subseteq DOMAIN best
    THEN FieldPrediction(best["text"], best["start"], best["end"])
    ELSE Raise

---------------------------------------------------------------------------
(* field_mapping.py: primary site                                          *)

site_keywords == <<
    <<"l","e","f","t"," ","b","r","e","a","s","t">>,
    <<"r","i","g","h","t"," ","b","r","e","a","s","t">>,
    <<"b","r","e","a","s","t">>,
    <<"r","i","g","h","t"," ","u","p","p","e","r"," ","l","o","b","e">>,
    <<"l","u","n","g">>,
    <<"s","i","g","m","o","i","d"," ","c","o","l","o","n">>,
    <<"s","i","g","m","o","i","d">>,
    <<"c","o","l","o","n">> >>

\* ent.get("text", "").lower() raises on a text that is None
TextRaises(ent) == IsNone(EntGet(ent, "text", Some(<<>>)))
EntLowerText(ent) == Lower(Get(EntGet(ent, "text", Some(<<>>))))

has_site_keyword(ent) ==
    /\ EntGet(ent, "label", None) \in {Some("Cancer"), Some("Organ")}
    /\ ~TextRaises(ent)
    /\ \E k \in 1..Len(site_keywords) : Contains(EntLowerText(ent), site_keywords[k])
has_site_keyword_raises(ent) ==
    /\ EntGet(ent, "label", None) \in {Some("Cancer"), Some("Organ")}
    /\ TextRaises(ent)

\* the fallback loop: the first keyword, in list order, that occurs in the text
SiteFallback(t) ==
    LET lower_text == Lower(t)
        found == {k \in 1..Len(site_keywords) : Contains(lower_text, site_keywords[k])}
    IN  IF found = {} THEN EmptyPrediction
        ELSE LET kw == site_keywords[MinOf(found)]
                 idx == Find(lower_text, kw)
             IN  FieldPrediction(Some(kw), Some(idx), Some(idx + Len(kw)))

infer_primary_site(t, ents) ==
    LET ok == [i \in 1..Len(ents) |-> has_site_keyword(ents[i])]
        bad == [i \in 1..Len(ents) |-> has_site_keyword_raises(ents[i])]
    IN
    IF PickBestRaises(ents, ok, bad) THEN Raise
    ELSE LET best == PickBest(ents, ok)
         IN  IF ~IsNone(best) THEN FromEntity(Get(best)) ELSE SiteFallback(t)

---------------------------------------------------------------------------
(* field_mapping.py: histology                                             *)

histology_terms == <<
    <<"c","a","r","c","i","n","o","m","a">>,
    <<"a","d","e","n","o","c","a","r","c","i","n","o","m","a">>,
    <<"s","a","r","c","o","m","a">>,
    <<"l","y","m","p","h","o","m","a">> >>

is_histology(ent) ==
    /\ EntGet(ent, "label", None) = Some("Cancer")
    /\ ~TextRaises(ent)
    /\ \E k \in 1..Len(histology_terms) : Contains(EntLowerText(ent), histology_terms[k])
is_histology_raises(ent) ==
    /\ EntGet(ent, "label", None) = Some("Cancer")
    /\ TextRaises(ent)

WordSet == UpperSet \cup LowerSet \cup DigitSet \cup {"_", DotI}

\* r"\b(\w+\s+(carcinoma|adenocarcinoma|sarcoma|lymphoma))\b", IGNORECASE, at offset i:
\* the offset after the match, or -1
HistologyMatchEnd(t, i) ==
    LET w == RunEnd(t, WordSet, i)
        s == RunEnd(t, SpaceSet, w)
        ends == {s + Len(histology_terms[k]) : k \in
                    {k \in 1..Len(histology_terms) :
                        /\ OccursAt(Fold(t), histology_terms[k], s)
                        /\ Boundary(t, s + Len(histology_terms[k]))}}
    IN  IF Boundary(t, i) /\ w > i /\ s > w /\ ends # {} THEN MinOf(ends) ELSE -1

HistologyFallback(t) ==
    LET starts == {i \in 0..Len(t) : HistologyMatchEnd(t, i) # -1}
    IN  IF starts = {} THEN EmptyPrediction
        ELSE LET i == MinOf(starts)
                 e == HistologyMatchEnd(t, i)
             IN  FieldPrediction(Some(Slice(t, i, e)), Some(i), Some(e))

infer_histology(t, ents) ==
    LET ok == [i \in 1..Len(ents) |-> is_histology(ents[i])]
        bad == [i \in 1..Len(ents) |-> is_histology_raises(ents[i])]
    IN
    IF PickBestRaises(ents, ok, bad) THEN Raise
    ELSE LET best == PickBest(ents, ok)
         IN  IF ~IsNone(best) THEN FromEntity(Get(best)) ELSE HistologyFallback(t)

---------------------------------------------------------------------------
(* field_mapping.py: stage                                                 *)

StageWord == <<"s","t","a","g","e">>

\* text.strip().lower().startswith("stage")
is_stage_entity(ent) ==
    /\ EntGet(ent, "label", None) = Some("Cancer")
    /\ ~TextRaises(ent)
    /\ StartsWith(Lower(Strip(Get(EntGet(ent, "text", Some(<<>>))))), StageWord)
is_stage_entity_raises(ent) ==
    /\ EntGet(ent, "label", None) = Some("Cancer")
    /\ TextRaises(ent)

\* r"\bp?[Tt]\d+[Nn]\d+M\d+\b" at offset i: the offset after the match, or -1
TnmMatchEnd(t, i) ==
    LET a == IF i < Len(t) /\ t[i + 1] = "p" THEN i + 1 ELSE i
        b == RunEnd(t, DigitSet, a + 1)
        c == RunEnd(t, DigitSet, b + 1)
        d == RunEnd(t, DigitSet, c + 1)
    IN  IF /\ Boundary(t, i)
           /\ a < Len(t) /\ t[a + 1] \in {"T", "t"}
           /\ b > a + 1
           /\ b < Len(t) /\ t[b + 1] \in {"N", "n"}
           /\ c > b + 1
           /\ c < Len(t) /\ t[c + 1] = "M"
           /\ d > c + 1
           /\ Boundary(t, d)
        THEN d ELSE -1

TnmSearch(t) ==
    LET starts == {i \in 0..Len(t) : TnmMatchEnd(t, i) # -1}
    IN  IF starts = {} THEN None
        ELSE Some(<<MinOf(starts), TnmMatchEnd(t, MinOf(starts))>>)

\* r"[IVX]{1,3}[AB]?\b" at offset i, for given numeral and suffix letters: the
\* offset after the match, or -1.  The engine tries the longest run first, and
\* for each run the suffix first.
RomanTry(t, i, n, numerals, suffixes) ==
    IF \A j \in 1..n : i + j <= Len(t) /\ t[i + j] \in numerals
    THEN IF i + n < Len(t) /\ t[i + n + 1] \in suffixes /\ Boundary(t, i + n + 1)
         THEN i + n + 1
         ELSE IF Boundary(t, i + n) THEN i + n ELSE -1
    ELSE -1

RomanMatchEnd(t, i, numerals, suffixes) ==
    IF RomanTry(t, i, 3, numerals, suffixes) # -1 THEN RomanTry(t, i, 3, numerals, suffixes)
    ELSE IF RomanTry(t, i, 2, numerals, suffixes) # -1 THEN RomanTry(t, i, 2, numerals, suffixes)
    ELSE RomanTry(t, i, 1, numerals, suffixes)

\* r"\b[IVX]{1,3}[AB]?\b" at offset i
SimpleStageMatchEnd(t, i) ==
    IF Boundary(t, i) THEN RomanMatchEnd(t, i, {"I", "V", "X"}, {"A", "B"}) ELSE -1

SimpleStageSearch(t) ==
    LET starts == {i \in 0..Len(t) : SimpleStageMatchEnd(t, i) # -1}
    IN  IF starts = {} THEN None
        ELSE Some(<<MinOf(starts), SimpleStageMatchEnd(t, MinOf(starts))>>)

\* a variant that lower-cases the matched text
FromMatchLowered(t, m) == FieldPrediction(Some(Lower(Slice(t, m[1], m[2]))), Some(m[1]), Some(m[2]))

\* FieldPrediction(value=m.group(0), evidence_start=m.start(), evidence_end=m.end())
FromMatch(t, m) == FieldPrediction(Some(Slice(t, m[1], m[2])), Some(m[1]), Some(m[2]))

infer_stage(t, ents) ==
    LET ok == [i \in 1..Len(ents) |-> is_stage_entity(ents[i])]
        bad == [i \in 1..Len(ents) |-> is_stage_entity_raises(ents[i])]
    IN
    IF PickBestRaises(ents, ok, bad) THEN Raise
    ELSE LET best == PickBest(ents, ok)
             tnm == TnmSearch(t)
             simple == SimpleStageSearch(t)
         IN  IF ~IsNone(best) THEN FromEntity(Get(best))
             ELSE IF ~IsNone(tnm) THEN FromMatch(t, Get(tnm))
             ELSE IF ~IsNone(simple) THEN FromMatch(t, Get(simple))
             ELSE EmptyPrediction

---------------------------------------------------------------------------
(* field_mapping.py: biomarkers                                            *)

MarkerWindow == 120
Positive == <<"p","o","s","i","t","i","v","e">>
Negative == <<"n","e","g","a","t","i","v","e">>

\* a marker pattern: a literal, matched ignoring case, with or without \b on each side
Pattern(lit, bounded) == [lit |-> lit, bounded |-> bounded]

er_patterns == <<
    Pattern(<<"e","s","t","r","o","g","e","n"," ","r","e","c","e","p","t","o","r">>, FALSE),
    Pattern(<<"e","r">>, TRUE) >>
pr_patterns == <<
    Pattern(<<"p","r","o","g","e","s","t","e","r","o","n","e"," ","r","e","c","e","p","t","o","r">>, FALSE),
    Pattern(<<"p","r">>, TRUE) >>
her2_patterns == << Pattern(<<"h","e","r","2">>, TRUE) >>

PatternAt(t, lower, p, i) ==
    /\ OccursAt(lower, p.lit, i)
    /\ p.bounded => (Boundary(t, i) /\ Boundary(t, i + Len(p.lit)))

\* re.compile("|".join(marker_patterns), re.IGNORECASE).search(text):
\* the leftmost offset where a pattern matches, and there the first pattern that does
MarkerSearch(t, patterns) ==
    LET lower == Fold(t)
        hits == {i \in 0..Len(t) : \E k \in 1..Len(patterns) : PatternAt(t, lower, patterns[k], i)}
    IN  IF hits = {} THEN None
        ELSE LET i == MinOf(hits)
                 k == MinOf({k \in 1..Len(patterns) : PatternAt(t, lower, patterns[k], i)})
             IN  Some(<<i, i + Len(patterns[k].lit)>>)

MarkerStatus(window_after) ==
    LET pos_index == Find(window_after, Positive)
        neg_index == Find(window_after, Negative)
    IN  IF pos_index # -1 /\ (neg_index = -1 \/ pos_index < neg_index) THEN Some(Positive)
        ELSE IF neg_index # -1 THEN Some(Negative)
        ELSE None

_find_marker_status(t, patterns) ==
    LET m == MarkerSearch(t, patterns)
    IN  IF IsNone(m) THEN EmptyPrediction
        ELSE LET window_after == Slice(Lower(t), Get(m)[2], Get(m)[2] + MarkerWindow)
             IN  FieldPrediction(MarkerStatus(window_after), Some(Get(m)[1]), Some(Get(m)[2]))

infer_er_status(t) == _find_marker_status(t, er_patterns)
infer_pr_status(t) == _find_marker_status(t, pr_patterns)
infer_her2_status(t) == _find_marker_status(t, her2_patterns)

---------------------------------------------------------------------------
(* field_mapping.py: the mapper                                            *)

DEFAULT_FIELDS == <<"primary_site", "histology", "stage", "er_status", "pr_status", "her2_status">>
FieldSet == {DEFAULT_FIELDS[i] : i \in 1..Len(DEFAULT_FIELDS)}

\* the extractor of a field, as map_note_to_fields calls it
Extract(f, t, ents) ==
    CASE f = "primary_site" -> infer_primary_site(t, ents)
      [] f = "histology" -> infer_histology(t, ents)
      [] f = "stage" -> infer_stage(t, ents)
      [] f = "er_status" -> infer_er_status(t)
      [] f = "pr_status" -> infer_pr_status(t)
      [] f = "her2_status" -> infer_her2_status(t)

\* the mapping it returns: <field>_pred and <field>_evidence for the six fields
map_note_to_fields(t, ents) ==
    LET primary_site == infer_primary_site(t, ents)
        histology == infer_histology(t, ents)
        stage == infer_stage(t, ents)
        er == infer_er_status(t)
        pr == infer_pr_status(t)
        her2 == infer_her2_status(t)
    IN  IF IsRaise(primary_site) \/ IsRaise(histology) \/ IsRaise(stage) THEN Raise
        ELSE [primary_site_pred |-> primary_site.value,
              primary_site_evidence |-> evidence_span(primary_site, t, DefaultMaxLen),
              histology_pred |-> histology.value,
              histology_evidence |-> evidence_span(histology, t, DefaultMaxLen),
              stage_pred |-> stage.value,
              stage_evidence |-> evidence_span(stage, t, DefaultMaxLen),
              er_status_pred |-> er.value,
              er_status_evidence |-> evidence_span(er, t, DefaultMaxLen),
              pr_status_pred |-> pr.value,
              pr_status_evidence |-> evidence_span(pr, t, DefaultMaxLen),
              her2_status_pred |-> her2.value,
              her2_status_evidence |-> evidence_span(her2, t, DefaultMaxLen)]

---------------------------------------------------------------------------
(* pipeline.py: generate_preabstract_csv                                   *)

\* "ent_record = entities_map.get(key, {"entities": []})"
\* "entities = ent_record.get("entities", [])"
EntitiesOf(row, emap) ==
    LET key == <<row.case_id, row.note_id>>
        ent_record == IF key \in DOMAIN emap THEN emap[key] ELSE [entities |-> <<>>]
    IN  IF "entities" \in DOMAIN ent_record THEN ent_record.entities ELSE <<>>

\* "combined = dict(row); combined.update(mapped)"
Combined(row, mapped) == mapped @@ row

\* the output CSV, a record of its rows, or Raise when a call of the loop raises
\* (the CSV is written after the loop)
generate_preabstract_csv(df, emap) ==
    LET mapped == [i \in 1..Len(df) |-> map_note_to_fields(df[i].note_text, EntitiesOf(df[i], emap))]
    IN  IF \E i \in 1..Len(df) : IsRaise(mapped[i]) THEN Raise
        ELSE [rows |-> [i \in 1..Len(df) |-> Combined(df[i], mapped[i])]]

---------------------------------------------------------------------------
(* evaluation.py: the value normalizers                                    *)

\* _norm_str: None for a null or blank value, else the trimmed lower-cased string
_norm_str(v) ==
    IF IsNone(v) THEN None
    ELSE LET s == Lower(Strip(Get(v)))
         IN  IF s = <<>> THEN None ELSE Some(s)

Unknown == <<"u","n","k","n","o","w","n">>

\* a variant that tests "neg" before "pos"
normalize_biomarker_neg_first(v) ==
    LET s == _norm_str(v)
    IN  IF IsNone(s) THEN Some(Unknown)
        ELSE IF Contains(Get(s), <<"n","e","g">>) THEN Some(Negative)
        ELSE IF Contains(Get(s), <<"p","o","s">>) THEN Some(Positive)
        ELSE IF Get(s) \in {Unknown, <<"u","n","k">>} THEN Some(Unknown)
        ELSE s

normalize_biomarker(v) ==
    LET s == _norm_str(v)
    IN  IF IsNone(s) THEN Some(Unknown)
        ELSE IF Contains(Get(s), <<"p","o","s">>) THEN Some(Positive)
        ELSE IF Contains(Get(s), <<"n","e","g">>) THEN Some(Negative)
        ELSE IF Get(s) \in {Unknown, <<"u","n","k">>} THEN Some(Unknown)
        ELSE s

\* r"\bstage\s+([ivx]{1,3}[ab]?)\b" at offset i: the span of group 1, or <<-1, -1>>
StageCodeMatch(s, i) ==
    LET w == i + Len(StageWord)
        g == RunEnd(s, SpaceSet, w)
        e == RomanMatchEnd(s, g, {"i", "v", "x"}, {"a", "b"})
    IN  IF Boundary(s, i) /\ OccursAt(s, StageWord, i) /\ g > w /\ e # -1
        THEN <<g, e>> ELSE <<-1, -1>>

\* r"\b([ivx]{1,3}[ab]?)\b" at offset i: the offset after the match, or -1
BareCodeMatchEnd(s, i) ==
    IF Boundary(s, i) THEN RomanMatchEnd(s, i, {"i", "v", "x"}, {"a", "b"}) ELSE -1

\* s.replace(" ", "")
RemoveSpaces(s) == SelectSeq(s, LAMBDA c : c # " ")

\* the stage a TNM string collapses to, written in upper case
CollapsedStageUpper == <<"I","I">>

\* 'return "ii"' for a value that holds pT3N0M0 or T3N0M0
CollapsedStage == <<"i","i">>

normalize_stage(v) ==
    LET s == _norm_str(v)
    IN  IF IsNone(s) THEN None
        ELSE LET t == Get(s)
                 staged == {i \in 0..Len(t) : StageCodeMatch(t, i)[1] # -1}
                 compact == Lower(RemoveSpaces(t))
                 bare == {i \in 0..Len(t) : BareCodeMatchEnd(t, i) # -1}
             IN  IF staged # {}
                 THEN LET m == StageCodeMatch(t, MinOf(staged)) IN Some(Slice(t, m[1], m[2]))
                 ELSE IF \/ Contains(compact, <<"p","t","3","n","0","m","0">>)
                         \/ Contains(compact, <<"t","3","n","0","m","0">>)
                 THEN Some(CollapsedStage)
                 ELSE IF bare # {}
                 THEN Some(Slice(t, MinOf(bare), BareCodeMatchEnd(t, MinOf(bare))))
                 ELSE s

normalize_primary_site(v) ==
    LET s == _norm_str(v)
    IN  IF IsNone(s) THEN None
        ELSE IF Contains(Get(s), <<"b","r","e","a","s","t">>) THEN Some(<<"b","r","e","a","s","t">>)
        ELSE IF Contains(Get(s), <<"l","u","n","g">>) \/ Contains(Get(s), <<"l","o","b","e">>)
             THEN Some(<<"l","u","n","g">>)
        ELSE IF Contains(Get(s), <<"c","o","l","o","n">>) \/ Contains(Get(s), <<"s","i","g","m","o","i","d">>)
             THEN Some(<<"c","o","l","o","n">>)
        ELSE s

Adenocarcinoma == <<"a","d","e","n","o","c","a","r","c","i","n","o","m","a">>
DuctalCarcinoma == <<"d","u","c","t","a","l"," ","c","a","r","c","i","n","o","m","a">>
InvasiveDuctalCarcinoma == <<"i","n","v","a","s","i","v","e"," ">> \o DuctalCarcinoma

normalize_histology(v) ==
    LET s == _norm_str(v)
    IN  IF IsNone(s) THEN None
        ELSE IF Contains(Get(s), Adenocarcinoma) THEN Some(Adenocarcinoma)
        ELSE IF Contains(Get(s), DuctalCarcinoma) \/ Contains(Get(s), InvasiveDuctalCarcinoma)
             THEN Some(InvasiveDuctalCarcinoma)
        ELSE s

\* a variant that does not count her2_status among the biomarker fields
normalize_for_field_two_markers(f, v) ==
    IF f \in {"er_status", "pr_status"} THEN normalize_biomarker(v)
    ELSE IF f = "stage" THEN normalize_stage(v)
    ELSE IF f = "primary_site" THEN normalize_primary_site(v)
    ELSE IF f = "histology" THEN normalize_histology(v)
    ELSE _norm_str(v)

normalize_for_field(f, v) ==
    IF f \in {"er_status", "pr_status", "her2_status"} THEN normalize_biomarker(v)
    ELSE IF f = "stage" THEN normalize_stage(v)
    ELSE IF f = "primary_site" THEN normalize_primary_site(v)
    ELSE IF f = "histology" THEN normalize_histology(v)
    ELSE _norm_str(v)

---------------------------------------------------------------------------
(* evaluation.py: the stage scorability gate                               *)

\* r"\bstg\b" somewhere in s
StgToken(s) ==
    \E i \in 0..Len(s) :
        OccursAt(s, <<"s","t","g">>, i) /\ Boundary(s, i) /\ Boundary(s, i + 3)

\* note_text is optional: a row may have no note text
stage_signal_present(note) ==
    IF IsNone(note) THEN FALSE
    ELSE LET s == Lower(Get(note))
         IN  IF Contains(s, StageWord) \/ StgToken(s) THEN TRUE
             ELSE IF ~IsNone(TnmSearch(s)) THEN TRUE
             ELSE FALSE

---------------------------------------------------------------------------
(* evaluation.py: compute_metrics and generate_error_report                *)
(* A row of the data frame is a record: its identity columns, note_text,   *)
(* and per field the ground truth, the prediction and the stored evidence. *)

\* compute_metrics scoring every row for stage, whatever its note says
NoSkipMetrics(f, r) == FALSE

\* 'if field == "stage" and not stage_signal_present(note_text): continue' in compute_metrics
SkipMetrics(f, r) == f = "stage" /\ ~stage_signal_present(r.note_text)

\* generate_error_report reporting every row for stage, whatever its note says
NoSkipErrors(f, r) == FALSE

\* 'if field == "stage" and not stage_signal_present(note_text): continue' in generate_error_report
SkipErrors(f, r) == f = "stage" /\ ~stage_signal_present(r.note_text)

\* the loop body of compute_metrics for one row r and field f, on the counters c
TallyRow(c, f, r) ==
    IF SkipMetrics(f, r) THEN c
    ELSE LET gt == normalize_for_field(f, r.gt[f])
             pr == normalize_for_field(f, r.pred[f])
         IN  IF IsNone(gt) THEN c
             ELSE IF gt = pr
                  THEN [c EXCEPT !.total = @ + 1, !.tp = @ + 1, !.correct = @ + 1]
             ELSE IF IsNone(pr)
                  THEN [c EXCEPT !.total = @ + 1, !.fn = @ + 1]
             ELSE [c EXCEPT !.total = @ + 1, !.fp = @ + 1]

\* "for _, r in df.iterrows()": the counters after the rows df[1..n]
RECURSIVE Tally(_, _, _)
Tally(f, df, n) ==
    IF n = 0 THEN [tp |-> 0, fp |-> 0, fn |-> 0, total |-> 0, correct |-> 0]
    ELSE TallyRow(Tally(f, df, n - 1), f, df[n])

\* round(num / den, 3), in thousandths; an exact tie rounds to the even neighbour
Round3(num, den) ==
    LET q == (1000 * num) \div den
        r == (1000 * num) % den
    IN  IF 2 * r < den THEN q
        ELSE IF 2 * r > den THEN q + 1
        ELSE IF q % 2 = 0 THEN q ELSE q + 1

\* a variant with the denominators of precision and recall exchanged
MetricsRowSwapped(f, c) ==
    [field |-> f,
     support |-> c.total,
     correct |-> c.correct,
     accuracy |-> IF c.total # 0 THEN Round3(c.correct, c.total) ELSE 0,
     precision |-> IF c.tp + c.fn # 0 THEN Round3(c.tp, c.tp + c.fn) ELSE 0,
     recall |-> IF c.tp + c.fp # 0 THEN Round3(c.tp, c.tp + c.fp) ELSE 0,
     f1 |-> IF c.tp # 0 THEN Round3(2 * c.tp, 2 * c.tp + c.fp + c.fn) ELSE 0]

\* the row compute_metrics appends for field f; the ratios are in thousandths.
\* f1 = 2pr/(p+r) with p = tp/(tp+fp), r = tp/(tp+fn) is 2tp/(2tp+fp+fn), and 0 when tp = 0
MetricsRow(f, c) ==
    [field |-> f,
     support |-> c.total,
     correct |-> c.correct,
     accuracy |-> IF c.total # 0 THEN Round3(c.correct, c.total) ELSE 0,
     precision |-> IF c.tp + c.fp # 0 THEN Round3(c.tp, c.tp + c.fp) ELSE 0,
     recall |-> IF c.tp + c.fn # 0 THEN Round3(c.tp, c.tp + c.fn) ELSE 0,
     f1 |-> IF c.tp # 0 THEN Round3(2 * c.tp, 2 * c.tp + c.fp + c.fn) ELSE 0]

compute_metrics(df, fields) ==
    [k \in 1..Len(fields) |-> MetricsRow(fields[k], Tally(fields[k], df, Len(df)))]

\* a variant that reports the predicted value in the evidence column
ErrorRowsNoEvidence(r, f) ==
    IF SkipErrors(f, r) THEN <<>>
    ELSE LET gt_norm == normalize_for_field(f, r.gt[f])
             pred_norm == normalize_for_field(f, r.pred[f])
         IN  IF IsNone(gt_norm) THEN <<>>
             ELSE IF gt_norm # pred_norm
                  THEN << [case_id |-> r.case_id, note_id |-> r.note_id,
                           note_type |-> r.note_type, note_date |-> r.note_date,
                           field |-> f,
                           gt_value_raw |-> r.gt[f], pred_value_raw |-> r.pred[f],
                           gt_value_norm |-> gt_norm, pred_value_norm |-> pred_norm,
                           evidence |-> r.pred[f]] >>
             ELSE <<>>

\* the error row of generate_error_report for row r and field f, if it emits one
ErrorRows(r, f) ==
    IF SkipErrors(f, r) THEN <<>>
    ELSE LET gt_norm == normalize_for_field(f, r.gt[f])
             pred_norm == normalize_for_field(f, r.pred[f])
         IN  IF IsNone(gt_norm) THEN <<>>
             ELSE IF gt_norm # pred_norm
                  THEN << [case_id |-> r.case_id, note_id |-> r.note_id,
                           note_type |-> r.note_type, note_date |-> r.note_date,
                           field |-> f,
                           gt_value_raw |-> r.gt[f], pred_value_raw |-> r.pred[f],
                           gt_value_norm |-> gt_norm, pred_value_norm |-> pred_norm,
                           evidence |-> r.evidence[f]] >>
             ELSE <<>>

\* "for field in fields" within one row: the rows for fields[1..k]
RECURSIVE RowErrors(_, _, _)
RowErrors(r, fields, k) ==
    IF k = 0 THEN <<>> ELSE RowErrors(r, fields, k - 1) \o ErrorRows(r, fields[k])

\* "for _, r in df.iterrows()": the rows for df[1..n]
RECURSIVE Errors(_, _, _)
Errors(df, fields, n) ==
    IF n = 0 THEN <<>> ELSE Errors(df, fields, n - 1) \o RowErrors(df[n], fields, Len(fields))

generate_error_report(df, fields) == Errors(df, fields, Len(df))

---------------------------------------------------------------------------
(* pipeline.py: its own normalizers and evaluate_preabstract               *)

\* pipeline._norm_str
pipeline_norm_str(v) ==
    IF IsNone(v) THEN None
    ELSE LET s == Lower(Strip(Get(v)))
         IN  IF s = <<>> THEN None ELSE Some(s)

\* pipeline.normalize_biomarker
pipeline_normalize_biomarker(v) ==
    LET s == pipeline_norm_str(v)
    IN  IF IsNone(s) THEN Some(Unknown)
        ELSE IF Contains(Get(s), <<"p","o","s">>) THEN Some(Positive)
        ELSE IF Contains(Get(s), <<"n","e","g">>) THEN Some(Negative)
        ELSE IF Get(s) \in {Unknown, <<"u","n","k">>} THEN Some(Unknown)
        ELSE s

\* pipeline.normalize_stage: the stage pattern, the TNM strings, the bare numeral
pipeline_normalize_stage(v) ==
    LET s == pipeline_norm_str(v)
    IN  IF IsNone(s) THEN None
        ELSE LET t == Get(s)
                 staged == {i \in 0..Len(t) : StageCodeMatch(t, i)[1] # -1}
                 compact == Lower(RemoveSpaces(t))
                 bare == {i \in 0..Len(t) : BareCodeMatchEnd(t, i) # -1}
             IN  IF staged # {}
                 THEN LET m == StageCodeMatch(t, MinOf(staged)) IN Some(Slice(t, m[1], m[2]))
                 ELSE IF \/ Contains(compact, <<"p","t","3","n","0","m","0">>)
                         \/ Contains(compact, <<"t","3","n","0","m","0">>)
                 THEN Some(<<"i","i">>)
                 ELSE IF bare # {}
                 THEN Some(Slice(t, MinOf(bare), BareCodeMatchEnd(t, MinOf(bare))))
                 ELSE s

\* pipeline.normalize_primary_site
pipeline_normalize_primary_site(v) ==
    LET s == pipeline_norm_str(v)
    IN  IF IsNone(s) THEN None
        ELSE IF Contains(Get(s), <<"b","r","e","a","s","t">>) THEN Some(<<"b","r","e","a","s","t">>)
        ELSE IF Contains(Get(s), <<"l","u","n","g">>) \/ Contains(Get(s), <<"l","o","b","e">>)
             THEN Some(<<"l","u","n","g">>)
        ELSE IF Contains(Get(s), <<"c","o","l","o","n">>) \/ Contains(Get(s), <<"s","i","g","m","o","i","d">>)
             THEN Some(<<"c","o","l","o","n">>)
        ELSE s

\* pipeline.normalize_histology
pipeline_normalize_histology(v) ==
    LET s == pipeline_norm_str(v)
    IN  IF IsNone(s) THEN None
        ELSE IF Contains(Get(s), Adenocarcinoma) THEN Some(Adenocarcinoma)
        ELSE IF Contains(Get(s), DuctalCarcinoma) \/ Contains(Get(s), InvasiveDuctalCarcinoma)
             THEN Some(InvasiveDuctalCarcinoma)
        ELSE s

\* pipeline.normalize_for_field
pipeline_normalize_for_field(f, v) ==
    IF f \in {"er_status", "pr_status", "her2_status"} THEN pipeline_normalize_biomarker(v)
    ELSE IF f = "stage" THEN pipeline_normalize_stage(v)
    ELSE IF f = "primary_site" THEN pipeline_normalize_primary_site(v)
    ELSE IF f = "histology" THEN pipeline_normalize_histology(v)
    ELSE pipeline_norm_str(v)

\* a variant that counts the rows whose ground truth is null
PreabstractTallyRowAll(c, f, r) ==
    LET gt == pipeline_normalize_for_field(f, r.gt[f])
        pr == pipeline_normalize_for_field(f, r.pred[f])
    IN  IF gt = pr THEN [total |-> c.total + 1, correct |-> c.correct + 1]
        ELSE [total |-> c.total + 1, correct |-> c.correct]

\* the loop body of evaluate_preabstract for one row r and field f, on the counters c
PreabstractTallyRow(c, f, r) ==
    LET gt == pipeline_normalize_for_field(f, r.gt[f])
        pr == pipeline_normalize_for_field(f, r.pred[f])
    IN  IF IsNone(gt) THEN c
        ELSE IF gt = pr THEN [total |-> c.total + 1, correct |-> c.correct + 1]
        ELSE [total |-> c.total + 1, correct |-> c.correct]

\* "for _, r in df.iterrows()": the counters after the rows df[1..n]
RECURSIVE PreabstractTally(_, _, _)
PreabstractTally(f, df, n) ==
    IF n = 0 THEN [total |-> 0, correct |-> 0]
    ELSE PreabstractTallyRow(PreabstractTally(f, df, n - 1), f, df[n])

\* the rows evaluate_preabstract returns; accuracy is in thousandths
evaluate_preabstract(df, fields) ==
    [k \in 1..Len(fields) |->
        LET c == PreabstractTally(fields[k], df, Len(df))
        IN  [field |-> fields[k],
             total_cases |-> c.total,
             correct |-> c.correct,
             accuracy |-> IF c.total > 0 THEN Round3(c.correct, c.total) ELSE 0]]

---------------------------------------------------------------------------
(* scripts/patch_stage_infer.py: the stage-keyword pattern of the intended *)
(* infer_stage                                                             *)

\* the candidates of group 1, "([0-9]{1,2}|[IVX]{1,4})" under IGNORECASE, in the
\* order the engine tries them: the character class and the count
StageKwCandidates == <<
    <<DigitSet, 2>>, <<DigitSet, 1>>,
    <<{"I","V","X","i","v","x", DotI}, 4>>, <<{"I","V","X","i","v","x", DotI}, 3>>,
    <<{"I","V","X","i","v","x", DotI}, 2>>, <<{"I","V","X","i","v","x", DotI}, 1>> >>

\* group 1 as candidate cand at offset p, then "(\s*[AB])?\b": the offset after
\* the match, or -1
StageKwTry(t, p, cand) ==
    LET g == p + cand[2]
        q == RunEnd(t, SpaceSet, g)
    IN  IF \A j \in 1..cand[2] : p + j <= Len(t) /\ t[p + j] \in cand[1]
        THEN IF q < Len(t) /\ t[q + 1] \in {"A", "B", "a", "b"} /\ Boundary(t, q + 1)
             THEN q + 1
             ELSE IF Boundary(t, g) THEN g ELSE -1
        ELSE -1

\* r"\bstage\b\s*[:\-]?\s*([0-9]{1,2}|[IVX]{1,4})(\s*[AB])?\b", IGNORECASE, at
\* offset i: None, or the match's span and its code,
\* (m.group(1) + (m.group(2) or "")).replace(" ", "").upper()
StageKwMatch(t, i) ==
    LET w == i + Len(StageWord)
        a == RunEnd(t, SpaceSet, w)
        b == IF a < Len(t) /\ t[a + 1] \in {":", "-"} THEN a + 1 ELSE a
        p == RunEnd(t, SpaceSet, b)
        ks == {k \in 1..Len(StageKwCandidates) : StageKwTry(t, p, StageKwCandidates[k]) # -1}
    IN  IF Boundary(t, i) /\ OccursAt(Fold(t), StageWord, i) /\ Boundary(t, w) /\ ks # {}
        THEN LET e == StageKwTry(t, p, StageKwCandidates[MinOf(ks)])
             IN  Some([start |-> i, end |-> e, code |-> Upper(RemoveSpaces(Slice(t, p, e)))])
        ELSE None

StageKwSearch(t) ==
    LET starts == {i \in 0..Len(t) : ~IsNone(StageKwMatch(t, i))}
    IN  IF starts = {} THEN None ELSE StageKwMatch(t, MinOf(starts))

---------------------------------------------------------------------------
(* Inputs.  A text is a concatenation of at most MaxWords words of a       *)
(* vocabulary; an entity list has at most MaxEnts entities of a pool, and  *)
(* a note that comes with entities has at most MaxEntNoteWords words.      *)

MaxWords == 3
MaxEntNoteWords == 2
MaxEnts == 1
MaxValueWords == 3
MaxRecords == 2
LongRunLen == 85

RECURSIVE Flatten(_)
Flatten(ws) == IF ws = <<>> THEN <<>> ELSE Head(ws) \o Flatten(Tail(ws))

SeqsUpTo(S, n) == UNION {[1..k -> S] : k \in 0..n}
Texts(words, n) == {Flatten(ws) : ws \in SeqsUpTo(words, n)}

\* a run of alphanumerics longer than the evidence window's cap
LongRun == [i \in 1..LongRunLen |-> "x"]

Entity(label, text, confidence, start, end) ==
    [label |-> Some(label), text |-> Some(text), confidence |-> Some(confidence),
     start |-> Some(start), end |-> Some(end)]

\* notes and entities for the six extractors
Words == {
    <<"I","V">>,
    <<"b","r","e","a","s","t">>,
    <<"E","R">>,
    <<" ","n","e","g","a","t","i","v","e">>,
    <<DotI>>,
    LongRun }

Notes == Texts(Words, MaxWords)
EntityNotes == Texts(Words, MaxEntNoteWords)

EntityPool == {
    Entity("Organ", <<"L","e","f","t"," ","b","r","e","a","s","t">>, 90, 0, 2),
    Entity("Cancer", <<"d","u","c","t","a","l"," ","c","a","r","c","i","n","o","m","a">>, 70, 2, 9),
    \* an entity with no "start"
    [label |-> Some("Organ"), text |-> Some(<<"l","u","n","g">>), confidence |-> Some(60),
     end |-> Some(4)] }

EntityLists == SeqsUpTo(EntityPool, MaxEnts)

\* notes and entities for the stage extractor and the stage gate
StageWords == {
    <<" ">>,
    <<":">>,
    <<"s","t","a","g","e">>,
    <<"s","t","g">>,
    <<"i","i">>,
    <<"I","V">>,
    <<"a">>,
    <<"p","T","3","N","0","M","0">> }

StageNotes == Texts(StageWords, MaxWords)

StageEntityPool == {
    Entity("Cancer", <<"S","t","a","g","e"," ","I","V">>, 90, 0, 2),
    Entity("Cancer", <<"s","t","a","g","e"," ","u","n","k","n","o","w","n">>, 50, 1, 3) }

StageEntityLists == SeqsUpTo(StageEntityPool, MaxEnts)

\* raw values for the normalizers
ValueWords == {
    <<" ">>,
    <<"\t">>,
    <<"S","t","a","g","e">>,
    <<"I","I">>,
    <<"A">>,
    <<"T","3">>,
    <<"N","0","M","0">>,
    <<"P","o","s">>,
    <<"n","e","g">>,
    <<"u","n","k">>,
    <<"l","o","b","e">>,
    <<"D","u","c","t","a","l"," ","c","a","r","c","i","n","o","m","a">> }

Values == {None} \cup {Some(t) : t \in Texts(ValueWords, MaxValueWords)}

\* the rows of a data frame: a note, and a profile of raw values per field for
\* the ground truth and for the predictions
Profile(site, hist, stage, er, pr, her2) ==
    [f \in FieldSet |->
        CASE f = "primary_site" -> site [] f = "histology" -> hist [] f = "stage" -> stage
          [] f = "er_status" -> er [] f = "pr_status" -> pr [] f = "her2_status" -> her2]

FullProfile ==
    Profile(Some(<<"L","e","f","t"," ","b","r","e","a","s","t">>),
            Some(<<"D","u","c","t","a","l"," ","c","a","r","c","i","n","o","m","a">>),
            Some(<<"S","t","a","g","e"," ","I","I","A">>),
            Some(<<"P","o","s","i","t","i","v","e">>), Some(<<"n","e","g">>), Some(<<"u","n","k">>))
TerseProfile ==
    Profile(Some(<<"b","r","e","a","s","t">>),
            Some(<<"a","d","e","n","o","c","a","r","c","i","n","o","m","a">>),
            Some(<<"i","i","a">>),
            Some(<<"p","o","s">>), None, Some(<<"2","+">>))
SparseProfile ==
    Profile(None, Some(<<" ", " ">>), None, None, Some(<<"P","o","s","i","t","i","v","e">>), None)

\* (ground truth, prediction) of a row
ProfilePairs == {
    <<FullProfile, TerseProfile>>,
    <<FullProfile, SparseProfile>>,
    <<SparseProfile, FullProfile>>,
    <<TerseProfile, TerseProfile>> }

EvalNotes == {
    Some(<<"S","t","a","g","e"," ","I","I">>),
    Some(<<"p","T","3","N","0","M","0">>),
    None }

\* the evidence stored beside a predicted value: a snippet around it
Snippet(v) == IF IsNone(v) THEN None ELSE Some(<<".", ".", " ">> \o Get(v) \o <<" ", ".", ".">>)

Row(note, gt, pr) ==
    [case_id |-> 1, note_id |-> 0, note_type |-> "pathology", note_date |-> "2024-01-01",
     note_text |-> note, gt |-> gt, pred |-> pr, evidence |-> [f \in FieldSet |-> Snippet(pr[f])]]

RowPool == {Row(n, pp[1], pp[2]) : n \in EvalNotes, pp \in ProfilePairs}

\* data frames: the rows of a frame are numbered by note_id
Frames == {[i \in 1..Len(rs) |-> [rs[i] EXCEPT !.note_id = i]] : rs \in SeqsUpTo(RowPool, MaxRecords)}

---------------------------------------------------------------------------
(* States before any call                                                  *)

NoteIdle ==
    /\ note_text = <<>> /\ entities = <<>> /\ pred = EmptyPrediction /\ snippet = None
    /\ record = Raise /\ signal = FALSE
NormIdle == value = None /\ norm1 = None /\ norm2 = None
EvalIdle == records = <<>> /\ tally = None /\ metrics = None /\ errors = None
PipeIdle ==
    /\ df_notes = <<>> /\ entities_map = <<>> /\ out = None
    /\ pnorm = None /\ summary = None

Init ==
    /\ op = "input" /\ field = "none"
    /\ \/ note_text \in Notes /\ entities = <<>>
       \/ note_text \in EntityNotes /\ entities \in EntityLists
    /\ pred = EmptyPrediction /\ snippet = None /\ record = Raise /\ signal = FALSE
    /\ NormIdle /\ EvalIdle /\ PipeIdle

InitStage ==
    /\ op = "input" /\ field = "none"
    /\ note_text \in StageNotes /\ entities \in StageEntityLists
    /\ pred = EmptyPrediction /\ snippet = None /\ record = Raise /\ signal = FALSE
    /\ NormIdle /\ EvalIdle /\ PipeIdle

InitNorm ==
    /\ op = "input" /\ field \in FieldSet \cup {"laterality"}
    /\ value \in Values /\ norm1 = None /\ norm2 = None
    /\ NoteIdle /\ EvalIdle /\ PipeIdle

InitEval ==
    /\ op = "input" /\ field = "none"
    /\ records \in Frames /\ tally = None /\ metrics = None /\ errors = None
    /\ NoteIdle /\ NormIdle /\ PipeIdle

---------------------------------------------------------------------------
(* The per-note operations                                                 *)

\* a call of the extractor of field f on the note
Infer(f, name) ==
    /\ op = "input"
    /\ op' = name
    /\ field' = f
    /\ pred' = Extract(f, note_text, entities)
    /\ UNCHANGED <<note_text, entities, snippet, record, signal>>
    /\ UNCHANGED normVars
    /\ UNCHANGED evalVars
    /\ UNCHANGED pipeVars

InferPrimarySite == Infer("primary_site", "infer_primary_site")
InferHistology == Infer("histology", "infer_histology")
InferStage == Infer("stage", "infer_stage")
InferErStatus == Infer("er_status", "infer_er_status")
InferPrStatus == Infer("pr_status", "infer_pr_status")
InferHer2Status == Infer("her2_status", "infer_her2_status")

InferOps == {"infer_primary_site", "infer_histology", "infer_stage",
             "infer_er_status", "infer_pr_status", "infer_her2_status"}

\* pred.evidence_span(note_text) on the prediction an extractor returned
EvidenceSpan ==
    /\ op \in InferOps \cup {"FieldPrediction"}
    /\ ~IsRaise(pred)
    /\ op' = "evidence_span"
    /\ snippet' = evidence_span(pred, note_text, DefaultMaxLen)
    /\ UNCHANGED <<note_text, entities, field, pred, record, signal>>
    /\ UNCHANGED normVars
    /\ UNCHANGED evalVars
    /\ UNCHANGED pipeVars

MapNoteToFields ==
    /\ op = "input"
    /\ op' = "map_note_to_fields"
    /\ record' = map_note_to_fields(note_text, entities)
    /\ UNCHANGED <<note_text, entities, field, pred, snippet, signal>>
    /\ UNCHANGED normVars
    /\ UNCHANGED evalVars
    /\ UNCHANGED pipeVars

\* stage_signal_present(note_text) on the note
StageSignalPresent ==
    /\ op = "input"
    /\ op' = "stage_signal_present"
    /\ signal' = stage_signal_present(Some(note_text))
    /\ UNCHANGED <<note_text, entities, field, pred, snippet, record>>
    /\ UNCHANGED normVars
    /\ UNCHANGED evalVars
    /\ UNCHANGED pipeVars

---------------------------------------------------------------------------
(* The normalizer, applied once and then to its own result                 *)

Normalize ==
    /\ op = "input"
    /\ value \in Values
    /\ op' = "normalize_for_field"
    /\ norm1' = normalize_for_field(field, value)
    /\ UNCHANGED <<field, value, norm2>>
    /\ UNCHANGED noteVars
    /\ UNCHANGED evalVars
    /\ UNCHANGED pipeVars

NormalizeAgain ==
    /\ op = "normalize_for_field"
    /\ op' = "normalize_again"
    /\ norm2' = normalize_for_field(field, norm1)
    /\ UNCHANGED <<field, value, norm1>>
    /\ UNCHANGED noteVars
    /\ UNCHANGED evalVars
    /\ UNCHANGED pipeVars

---------------------------------------------------------------------------
(* The two reports over one data frame, in either order                    *)

ComputeMetrics ==
    /\ IsNone(metrics)
    /\ op' = "compute_metrics"
    /\ tally' = Some([f \in FieldSet |-> Tally(f, records, Len(records))])
    /\ metrics' = Some(compute_metrics(records, DEFAULT_FIELDS))
    /\ UNCHANGED <<field, records, errors>>
    /\ UNCHANGED noteVars
    /\ UNCHANGED normVars
    /\ UNCHANGED pipeVars

GenerateErrorReport ==
    /\ IsNone(errors)
    /\ op' = "generate_error_report"
    /\ errors' = Some(generate_error_report(records, DEFAULT_FIELDS))
    /\ UNCHANGED <<field, records, tally, metrics>>
    /\ UNCHANGED noteVars
    /\ UNCHANGED normVars
    /\ UNCHANGED pipeVars

---------------------------------------------------------------------------
(* Specifications                                                          *)

Next ==
    \/ InferPrimarySite
    \/ InferHistology
    \/ InferStage
    \/ InferErStatus
    \/ InferPrStatus
    \/ InferHer2Status
    \/ EvidenceSpan
    \/ MapNoteToFields

Spec == Init /\ [][Next]_vars

NextStage == InferStage \/ StageSignalPresent

SpecStage == InitStage /\ [][NextStage]_vars

NextNorm == Normalize \/ NormalizeAgain

SpecNorm == InitNorm /\ [][NextNorm]_vars

NextEval == ComputeMetrics \/ GenerateErrorReport

SpecEval == InitEval /\ [][NextEval]_vars

---------------------------------------------------------------------------
(* Properties                                                              *)

\* every run of whitespace collapsed to one space, as the evidence test compares
Collapse(t) == Strip(Sub("whitespace", t))

BothAbsent(p) == IsNone(p.evidence_start) /\ IsNone(p.evidence_end)
BothPresent(p) == ~IsNone(p.evidence_start) /\ ~IsNone(p.evidence_end)
Returned == op \in InferOps /\ ~IsRaise(pred)

\* C1: whenever evidence_span returns a non-empty snippet for a prediction of
\* one of the six extractors, the snippet, with whitespace runs collapsed, is a
\* literal substring of the note text with whitespace runs collapsed.
C1_EvidenceTraceable ==
    (op = "evidence_span" /\ ~IsNone(snippet) /\ Get(snippet) # <<>>)
        => Contains(Collapse(note_text), Collapse(Get(snippet)))

\* C2: for a note that holds an explicit stage phrase ("stage", an optional
\* ':' or '-', a numeral or roman code, an optional A/B suffix), infer_stage
\* with no entities returns the code of the phrase, upper-cased and without
\* inner spaces.
C2_ExplicitStagePhrase ==
    (op = "infer_stage" /\ entities = <<>> /\ ~IsNone(StageKwSearch(note_text)))
        => (~IsRaise(pred) /\ pred.value = Some(Get(StageKwSearch(note_text)).code))

\* p?T<digits>N<digits>M<digits> as a token, the letters in either case
TnmFold(t) ==
    [i \in 1..Len(t) |-> IF t[i] = "P" THEN "p" ELSE IF t[i] = "m" THEN "M" ELSE t[i]]
TnmShaped(t) == ~IsNone(TnmSearch(TnmFold(t)))
StagePrefixed(t) == Contains(Fold(t), StageWord) \/ StgToken(Fold(t))

\* C3: stage_signal_present is true exactly when the note, compared without
\* regard to case, holds "stage", the token "stg", or a TNM-shaped token.
C3_StageGate ==
    op = "stage_signal_present" => (signal = (StagePrefixed(note_text) \/ TnmShaped(note_text)))

\* the rows a report may score for a field: the stage gate passed and the
\* normalized ground truth is not null
Scorable(f) ==
    {i \in 1..Len(records) :
        /\ f = "stage" => stage_signal_present(records[i].note_text)
        /\ ~IsNone(normalize_for_field(f, records[i].gt[f]))}
Agree(f, i) ==
    normalize_for_field(f, records[i].gt[f]) = normalize_for_field(f, records[i].pred[f])
PredNull(f, i) == IsNone(normalize_for_field(f, records[i].pred[f]))
ErrorsOf(f) == {k \in 1..Len(Get(errors)) : Get(errors)[k].field = f}

\* C4: both reports score the same rows: for every field, the rows compute_metrics
\* counts as support are the scorable rows, the rows generate_error_report
\* emits are the scorable rows whose values disagree, and so the number of
\* error rows is the support minus the correct count.
C4_SamePopulation ==
    (~IsNone(metrics) /\ ~IsNone(errors)) =>
        \A k \in 1..Len(DEFAULT_FIELDS) :
            LET f == DEFAULT_FIELDS[k]
                row == Get(metrics)[k]
            IN  /\ row.field = f
                /\ row.support = Cardinality(Scorable(f))
                /\ {Get(errors)[e].note_id : e \in ErrorsOf(f)} = {i \in Scorable(f) : ~Agree(f, i)}
                /\ Cardinality(ErrorsOf(f)) = row.support - row.correct

C4_Witness ==
    /\ ~IsNone(metrics) /\ ~IsNone(errors)
    /\ \E k \in 1..Len(DEFAULT_FIELDS) :
          Get(metrics)[k].support > Get(metrics)[k].correct /\ Get(metrics)[k].correct > 0
    /\ Get(metrics)[3].correct > 0
    /\ \E i \in 1..Len(records) :
          /\ ~stage_signal_present(records[i].note_text)
          /\ ~IsNone(normalize_for_field("stage", records[i].gt["stage"]))
          /\ ~Agree("stage", i)

C6_NormalizeIdempotent == op = "normalize_again" => norm2 = norm1

C6_Witness ==
    /\ op = "normalize_again" /\ field = "stage"
    /\ ~IsNone(value) /\ ~IsNone(norm1) /\ Get(norm1) # Get(value)
    /\ Get(norm1) = CollapsedStage

MarkerNames ==
    [o \in {"infer_er_status", "infer_pr_status", "infer_her2_status"} |->
        CASE o = "infer_er_status" ->
               {<<"e","s","t","r","o","g","e","n"," ","r","e","c","e","p","t","o","r">>, <<"e","r">>}
          [] o = "infer_pr_status" ->
               {<<"p","r","o","g","e","s","t","e","r","o","n","e"," ","r","e","c","e","p","t","o","r">>,
                <<"p","r">>}
          [] o = "infer_her2_status" -> {<<"h","e","r","2">>}]

MentionsMarker(o, t) ==
    \E name \in MarkerNames[o] : \E i \in 0..Len(t) : OccursAt(Fold(t), name, i)

C8_SpanWellFormed ==
    Returned =>
        \/ BothAbsent(pred)
        \/ /\ BothPresent(pred)
           /\ 0 <= Get(pred.evidence_start)
           /\ Get(pred.evidence_start) <= Get(pred.evidence_end)
           /\ Get(pred.evidence_end) <= Len(note_text)

\* the keyword search overrunning the note with no entity involved
C8_Witness ==
    /\ op = "infer_primary_site" /\ entities = <<>> /\ ~IsRaise(pred)
    /\ BothPresent(pred) /\ Get(pred.evidence_end) > Len(note_text)

HasStageEntity == \E k \in 1..Len(entities) : is_stage_entity(entities[k])

\* C9: the explicit stage phrase of the note comes first among the strategies
\* of infer_stage: when the note holds such a phrase and the entity list holds
\* a stage-like Cancer entity, the value and the span are those of the phrase.
C9_PhraseBeforeEntity ==
    (op = "infer_stage" /\ ~IsNone(StageKwSearch(note_text)) /\ HasStageEntity) =>
        LET m == Get(StageKwSearch(note_text))
        IN  pred = FieldPrediction(Some(m.code), Some(m.start), Some(m.end))

\* C10: for a note with no "stage"/"stg" prefix and no TNM pattern, and no
\* stage-like Cancer entity, infer_stage returns the empty prediction, roman
\* numerals in the text notwithstanding.
C10_NoStrayRoman ==
    (/\ op = "infer_stage"
     /\ ~StagePrefixed(note_text) /\ ~TnmShaped(note_text)
     /\ ~HasStageEntity)
        => pred = EmptyPrediction


---------------------------------------------------------------------------
(* The TNM fallback of infer_stage                                         *)

\* the characters of t at offsets x .. y-1 are digits, and there is one at least
AllDigits(t, x, y) == x < y /\ \A k \in (x + 1)..y : IsDigit(t[k])

\* t[i:j] is a TNM token standing on its own: an optional "p", T or t, digits,
\* N or n, digits, M, digits, with a word boundary on either side
TnmTokenAt(t, i, j) ==
    /\ Boundary(t, i) /\ Boundary(t, j)
    /\ \E a \in {i, i + 1} : \E b, c \in (i + 1)..j :
          /\ a = i + 1 => t[i + 1] = "p"
          /\ a + 1 < b /\ b + 1 < c /\ c + 1 < j
          /\ t[a + 1] \in {"T", "t"} /\ AllDigits(t, a + 1, b)
          /\ t[b + 1] \in {"N", "n"} /\ AllDigits(t, b + 1, c)
          /\ t[c + 1] = "M" /\ AllDigits(t, c + 1, j)

TnmSpans(t) ==
    LET B == {i \in 0..Len(t) : Boundary(t, i)}
    IN  {s \in B \X B : s[1] < s[2] /\ TnmTokenAt(t, s[1], s[2])}

\* C11: for a note with no explicit stage phrase and no stage-like Cancer
\* entity, if the text holds a TNM token then infer_stage returns the first
\* such token verbatim, in its original letter case, with the token's span,
\* whether or not a bare roman numeral occurs earlier in the text.
C11_TnmFallback ==
    (/\ op = "infer_stage"
     /\ IsNone(StageKwSearch(note_text)) /\ ~HasStageEntity
     /\ TnmSpans(note_text) # {})
        => \E s \in TnmSpans(note_text) :
              /\ \A u \in TnmSpans(note_text) : s[1] <= u[1]
              /\ pred = FieldPrediction(Some(Slice(note_text, s[1], s[2])),
                                        Some(s[1]), Some(s[2]))

\* a TNM token returned although a bare roman numeral stands before it
C11_Witness ==
    /\ op = "infer_stage"
    /\ IsNone(StageKwSearch(note_text)) /\ ~HasStageEntity
    /\ TnmSpans(note_text) # {}
    /\ ~IsNone(SimpleStageSearch(note_text))
    /\ ~IsNone(pred.evidence_start)
    /\ Get(SimpleStageSearch(note_text))[1] < Get(pred.evidence_start)
    /\ pred.value = Some(<<"p", "T", "3", "N", "0", "M", "0">>)

---------------------------------------------------------------------------
(* The biomarker extractors on notes about receptors                       *)

MarkerGapLen == 112
DotRunLen == 11

\* filler that pushes a polarity word to the edge of the window after a marker
MarkerGap == [i \in 1..MarkerGapLen |-> "."]

\* a run of U+0130, each of which str.lower turns into two characters
DotRun == [i \in 1..DotRunLen |-> DotI]

MarkerWords == {
    <<" ","E","R">>,
    <<" ","P","R">>,
    <<" ","H","E","R","2">>,
    <<" ","e","s","t","r","o","g","e","n"," ","r","e","c","e","p","t","o","r">>,
    <<" ","p","o","s","i","t","i","v","e">>,
    <<" ","N","e","g","a","t","i","v","e">>,
    MarkerGap,
    DotRun }

MarkerNotes == Texts(MarkerWords, MaxWords)

InitMarker ==
    /\ op = "input" /\ field = "none"
    /\ note_text \in MarkerNotes /\ entities = <<>>
    /\ pred = EmptyPrediction /\ snippet = None /\ record = Raise /\ signal = FALSE
    /\ NormIdle /\ EvalIdle /\ PipeIdle

NextMarker == InferErStatus \/ InferPrStatus \/ InferHer2Status

SpecMarker == InitMarker /\ [][NextMarker]_vars

MarkerOps == {"infer_er_status", "infer_pr_status", "infer_her2_status"}

\* the abbreviations, which count as a mention only when they stand alone
ShortNames == {<<"e","r">>, <<"p","r">>, <<"h","e","r","2">>}

\* the marker name stands at offset i of t, whose letters folded to lower case are lower
MentionAt(t, lower, i, name) ==
    /\ OccursAt(lower, name, i)
    /\ name \in ShortNames => (Boundary(t, i) /\ Boundary(t, i + Len(name)))

\* the spans of t at which a marker name of extractor o stands, in any letter case
Mentions(o, t) ==
    LET lower == Fold(t)
    IN  UNION {{<<i, i + Len(name)>> : i \in {j \in 0..Len(t) : MentionAt(t, lower, j, name)}} :
                   name \in MarkerNames[o]}

FirstMention(o, t) ==
    CHOOSE s \in Mentions(o, t) : \A u \in Mentions(o, t) : s[1] <= u[1]

\* the text of the note in the MarkerWindow characters after offset e, lower-cased
WindowAfter(t, e) == Lower(Slice(t, e, e + MarkerWindow))

PositiveFirst(w) ==
    Find(w, Positive) # -1 /\ (Find(w, Negative) = -1 \/ Find(w, Positive) < Find(w, Negative))
NegativeFirst(w) ==
    Find(w, Negative) # -1 /\ (Find(w, Positive) = -1 \/ Find(w, Negative) < Find(w, Positive))

\* C12: for a note that mentions the marker, the evidence span is the span of
\* the first mention, and the status is decided by the 120 characters of the
\* note after that mention alone: "positive" exactly when "positive" occurs
\* there before any "negative", "negative" exactly when "negative" occurs there
\* first; text before the mention or beyond the window has no influence.
C12_WindowDecides ==
    (op \in MarkerOps /\ Mentions(op, note_text) # {}) =>
        LET s == FirstMention(op, note_text)
            w == WindowAfter(note_text, s[2])
        IN  /\ pred.evidence_start = Some(s[1]) /\ pred.evidence_end = Some(s[2])
            /\ pred.value = Some(Positive) <=> PositiveFirst(w)
            /\ pred.value = Some(Negative) <=> NegativeFirst(w)

\* a status taken from a polarity word that follows the mention in the window
C12_Witness ==
    /\ op = "infer_er_status" /\ Mentions(op, note_text) # {}
    /\ pred.value = Some(Negative)
    /\ NegativeFirst(WindowAfter(note_text, FirstMention(op, note_text)[2]))
    /\ Find(WindowAfter(note_text, FirstMention(op, note_text)[2]), Positive) # -1

\* neither polarity word occurs in the window
NoPolarity(w) == Find(w, Positive) = -1 /\ Find(w, Negative) = -1

\* C13: when the note mentions the marker and neither "positive" nor
\* "negative" occurs in the window after the mention, the extractor returns
\* value None with both offsets set to the span of the mention; the offsets are
\* absent only when the note does not mention the marker at all.
C13_MarkerWithoutPolarity ==
    op \in MarkerOps =>
        /\ (/\ Mentions(op, note_text) # {}
            /\ NoPolarity(WindowAfter(note_text, FirstMention(op, note_text)[2])))
              => /\ IsNone(pred.value)
                 /\ pred.evidence_start = Some(FirstMention(op, note_text)[1])
                 /\ pred.evidence_end = Some(FirstMention(op, note_text)[2])
        /\ BothAbsent(pred) <=> Mentions(op, note_text) = {}

\* a marker mentioned with its polarity word just beyond the window
C13_Witness ==
    /\ op = "infer_er_status" /\ Mentions(op, note_text) # {}
    /\ NoPolarity(WindowAfter(note_text, FirstMention(op, note_text)[2]))
    /\ Find(Lower(note_text), Positive) > FirstMention(op, note_text)[2]
    /\ IsNone(pred.value) /\ BothPresent(pred)

---------------------------------------------------------------------------
(* The primary-site chain                                                  *)

EntityKeys == {"label", "text", "confidence", "start", "end"}

\* an entity as the recognizer is meant to deliver it: every key, no null
WellFormedEntity(e) == DOMAIN e = EntityKeys /\ \A k \in EntityKeys : ~IsNone(e[k])
WellFormed(ents) == \A k \in 1..Len(ents) : WellFormedEntity(ents[k])

\* keyword kw stands at offset i of t, letter case ignored
KeywordAt(t, kw, i) == OccursAt(Fold(t), kw, i)
KeywordIn(t, kw) == Contains(Fold(t), kw)

\* the offset of the first occurrence of kw in t, letter case ignored, or -1
KeywordFirst(t, kw) == Find(Fold(t), kw)

\* a well-formed entity labelled Cancer or Organ whose text holds a site keyword
SiteEntity(e) ==
    /\ e.label \in {Some("Cancer"), Some("Organ")}
    /\ \E k \in 1..Len(site_keywords) : KeywordIn(Get(e.text), site_keywords[k])

\* C14: if an entity labelled Cancer or Organ has text holding a site keyword,
\* infer_primary_site returns the text and span of the qualifying entity of
\* highest confidence; otherwise it returns the first keyword, in list order,
\* that occurs in the note when letter case is ignored, with the span of that
\* keyword's first occurrence; if no keyword occurs, the empty prediction.
C14_SiteChain ==
    (op = "infer_primary_site" /\ WellFormed(entities)) =>
        LET Q == {k \in 1..Len(entities) : SiteEntity(entities[k])}
            F == {k \in 1..Len(site_keywords) : KeywordIn(note_text, site_keywords[k])}
        IN  IF Q # {}
            THEN \E k \in Q :
                    /\ \A j \in Q : Get(entities[j].confidence) <= Get(entities[k].confidence)
                    /\ pred = FieldPrediction(entities[k].text, entities[k].start, entities[k].end)
            ELSE IF F # {}
            THEN LET kw == site_keywords[MinOf(F)]
                     i == KeywordFirst(note_text, kw)
                 IN  pred = FieldPrediction(Some(kw), Some(i), Some(i + Len(kw)))
            ELSE pred = EmptyPrediction

\* the fallback finding a keyword where it stands, past a non-qualifying entity
C14_Witness ==
    /\ op = "infer_primary_site" /\ WellFormed(entities) /\ entities # <<>>
    /\ \A k \in 1..Len(entities) : ~SiteEntity(entities[k])
    /\ pred.value = Some(<<"b","r","e","a","s","t">>)
    /\ Get(pred.evidence_start) > 0
    /\ KeywordAt(note_text, <<"b","r","e","a","s","t">>, Get(pred.evidence_start))

---------------------------------------------------------------------------
(* The normalizers, rule by rule                                           *)

BiomarkerFields == {"er_status", "pr_status", "her2_status"}

\* a null value, or one that is empty once trimmed
Blank(v) == IsNone(v) \/ Strip(Get(v)) = <<>>

\* the trimmed, lower-cased value
Trimmed(v) == Lower(Strip(Get(v)))

\* C15: for er_status, pr_status and her2_status, normalize_for_field maps a
\* null or blank value to "unknown"; otherwise, on the trimmed lower-cased
\* value, it returns "positive" if that holds "pos", else "negative" if it
\* holds "neg", else "unknown" if it is "unknown" or "unk", else the trimmed
\* lower-cased value itself; the result is never null.
C15_BiomarkerNormalization ==
    (op = "normalize_for_field" /\ field \in BiomarkerFields) =>
        /\ ~IsNone(norm1)
        /\ Blank(value) => norm1 = Some(Unknown)
        /\ ~Blank(value) =>
              LET s == Trimmed(value)
                  pos == Contains(s, <<"p","o","s">>)
                  neg == Contains(s, <<"n","e","g">>)
                  unk == s \in {Unknown, <<"u","n","k">>}
              IN  /\ pos => norm1 = Some(Positive)
                  /\ (~pos /\ neg) => norm1 = Some(Negative)
                  /\ (~pos /\ ~neg /\ unk) => norm1 = Some(Unknown)
                  /\ (~pos /\ ~neg /\ ~unk) => norm1 = Some(s)

\* a value holding both "pos" and "neg", the latter first, normalized to "positive"
C15_Witness ==
    /\ op = "normalize_for_field" /\ field = "er_status" /\ ~Blank(value)
    /\ Find(Trimmed(value), <<"n","e","g">>) # -1
    /\ Find(Trimmed(value), <<"n","e","g">>) < Find(Trimmed(value), <<"p","o","s">>)
    /\ norm1 = Some(Positive)

\* the string with every whitespace character removed
RemoveWhitespace(s) == SelectSeq(s, LAMBDA c : ~IsSpace(c))

\* C16: normalize_stage maps a null or blank value to null; otherwise, on the
\* trimmed lower-cased string, it returns the result of the first rule that
\* applies: (a) the code captured by "stage", whitespace, a roman numeral of one
\* to three of i/v/x and an optional a or b; (b) "ii" if the string with its
\* whitespace removed holds "pt3n0m0" or "t3n0m0"; (c) the first bare roman
\* numeral token; (d) the trimmed lower-cased string unchanged.
C16_StageNormalizationOrder ==
    (op = "normalize_for_field" /\ field = "stage") =>
        IF Blank(value) THEN IsNone(norm1)
        ELSE LET s == Trimmed(value)
                 staged == {i \in 0..Len(s) : StageCodeMatch(s, i)[1] # -1}
                 bare == {i \in 0..Len(s) : BareCodeMatchEnd(s, i) # -1}
             IN  IF staged # {}
                 THEN norm1 = Some(Slice(s, StageCodeMatch(s, MinOf(staged))[1],
                                            StageCodeMatch(s, MinOf(staged))[2]))
                 ELSE IF Contains(RemoveWhitespace(s), <<"t","3","n","0","m","0">>)
                 THEN norm1 = Some(<<"i","i">>)
                 ELSE IF bare # {}
                 THEN norm1 = Some(Slice(s, MinOf(bare), BareCodeMatchEnd(s, MinOf(bare))))
                 ELSE norm1 = Some(s)

\* rule (b) taken for a TNM string written with a space inside
C16_Witness ==
    /\ op = "normalize_for_field" /\ field = "stage" /\ ~Blank(value)
    /\ ~Contains(Trimmed(value), <<"t","3","n","0","m","0">>)
    /\ Contains(RemoveWhitespace(Trimmed(value)), <<"t","3","n","0","m","0">>)
    /\ norm1 = Some(<<"i","i">>)

---------------------------------------------------------------------------
(* The ratios of compute_metrics                                           *)

\* x, in thousandths, is num/den rounded to three decimals
IsRatio(x, num, den) ==
    LET d == 1000 * num - x * den
    IN  2 * d <= den /\ 2 * (0 - d) <= den

TruePos(f) == Cardinality({i \in Scorable(f) : Agree(f, i)})
FalsePos(f) == Cardinality({i \in Scorable(f) : ~Agree(f, i) /\ ~PredNull(f, i)})
FalseNeg(f) == Cardinality({i \in Scorable(f) : ~Agree(f, i) /\ PredNull(f, i)})

\* C17: for every frame and field, compute_metrics yields 0 <= correct <=
\* support; precision, recall and accuracy are TP/(TP+FP), TP/(TP+FN) and
\* TP/support as reported (to three decimals) and lie in [0, 1]; precision is 0
\* when TP+FP = 0, recall is 0 when TP+FN = 0, F1 is 0 when precision and
\* recall are both 0, and accuracy is 0 when support is 0, the empty frame
\* included.
C17_MetricBounds ==
    ~IsNone(metrics) =>
        /\ Len(Get(metrics)) = Len(DEFAULT_FIELDS)
        /\ \A k \in 1..Len(DEFAULT_FIELDS) :
            LET f == DEFAULT_FIELDS[k]
                row == Get(metrics)[k]
                tp == TruePos(f)
                fp == FalsePos(f)
                fn == FalseNeg(f)
            IN  /\ 0 <= row.correct /\ row.correct <= row.support
                /\ row.precision \in 0..1000 /\ row.recall \in 0..1000
                /\ row.accuracy \in 0..1000
                /\ IF tp + fp = 0 THEN row.precision = 0
                   ELSE IsRatio(row.precision, tp, tp + fp)
                /\ IF tp + fn = 0 THEN row.recall = 0
                   ELSE IsRatio(row.recall, tp, tp + fn)
                /\ IF row.support = 0 THEN row.accuracy = 0
                   ELSE IsRatio(row.accuracy, tp, row.support)
                /\ (row.precision = 0 /\ row.recall = 0) => row.f1 = 0

\* a frame with rows in which one field has no support and another has a
\* precision strictly between 0 and 1 beside a recall of 1
C17_Witness ==
    /\ ~IsNone(metrics) /\ records # <<>>
    /\ \E k \in 1..Len(DEFAULT_FIELDS) :
          Get(metrics)[k].support = 0 /\ Get(metrics)[k].accuracy = 0
    /\ \E k \in 1..Len(DEFAULT_FIELDS) :
          /\ Get(metrics)[k].precision > 0 /\ Get(metrics)[k].precision < 1000
          /\ Get(metrics)[k].recall = 1000
    /\ \E k \in 1..Len(DEFAULT_FIELDS) :
          /\ Get(metrics)[k].support > 0 /\ Get(metrics)[k].precision = 0
          /\ Get(metrics)[k].recall = 0 /\ Get(metrics)[k].f1 = 0

---------------------------------------------------------------------------
(* Entity lists with malformed entities                                    *)

\* the list without its malformed entities
WellFormedOnly(ents) == SelectSeq(ents, LAMBDA e : WellFormedEntity(e))

\* C18: for an entity list in which some entity lacks its label, text,
\* confidence, start or end, or has a null there, infer_primary_site,
\* infer_histology, infer_stage and map_note_to_fields complete without
\* raising, and the result is the result for the list without that entity.
C18_MalformedEntities ==
    ~WellFormed(entities) =>
        /\ op \in {"infer_primary_site", "infer_histology", "infer_stage"} =>
              /\ ~IsRaise(pred)
              /\ pred = Extract(field, note_text, WellFormedOnly(entities))
        /\ op = "map_note_to_fields" =>
              /\ ~IsRaise(record)
              /\ record = map_note_to_fields(note_text, WellFormedOnly(entities))

\* a malformed entity that an extractor passes over without raising
C18_Witness ==
    /\ op = "infer_histology" /\ ~WellFormed(entities)
    /\ ~IsRaise(pred)
    /\ pred = Extract(field, note_text, WellFormedOnly(entities))

---------------------------------------------------------------------------
(* Notes in which an extractor finds nothing                               *)

\* none of the strategies that the extractor of field f has finds anything in
\* the note t and the well-formed entities ents
NoMatch(f, t, ents) ==
    CASE f = "primary_site" ->
           /\ \A k \in 1..Len(ents) : ~SiteEntity(ents[k])
           /\ \A k \in 1..Len(site_keywords) : ~KeywordIn(t, site_keywords[k])
      [] f = "histology" ->
           /\ \A k \in 1..Len(ents) :
                 ~(/\ ents[k].label = Some("Cancer")
                   /\ \E h \in 1..Len(histology_terms) : KeywordIn(Get(ents[k].text), histology_terms[h]))
           /\ \A i \in 0..Len(t) : HistologyMatchEnd(t, i) = -1
      [] f = "stage" ->
           /\ \A k \in 1..Len(ents) : ~is_stage_entity(ents[k])
           /\ TnmSpans(t) = {}
           /\ IsNone(SimpleStageSearch(t))
      [] f = "er_status" -> Mentions("infer_er_status", t) = {}
      [] f = "pr_status" -> Mentions("infer_pr_status", t) = {}
      [] f = "her2_status" -> Mentions("infer_her2_status", t) = {}

\* the keys of the mapper's result for field f
PredKey(f) ==
    CASE f = "primary_site" -> "primary_site_pred" [] f = "histology" -> "histology_pred"
      [] f = "stage" -> "stage_pred" [] f = "er_status" -> "er_status_pred"
      [] f = "pr_status" -> "pr_status_pred" [] f = "her2_status" -> "her2_status_pred"
EvidenceKey(f) ==
    CASE f = "primary_site" -> "primary_site_evidence" [] f = "histology" -> "histology_evidence"
      [] f = "stage" -> "stage_evidence" [] f = "er_status" -> "er_status_evidence"
      [] f = "pr_status" -> "pr_status_evidence" [] f = "her2_status" -> "her2_status_evidence"

---------------------------------------------------------------------------
(* The rows of the error report                                            *)

\* the rows of the report for record i (rows carry the record's note_id) and field f
ReportedFor(i, f) ==
    {k \in 1..Len(Get(errors)) :
        Get(errors)[k].note_id = records[i].note_id /\ Get(errors)[k].field = f}

\* the row the report owes to record i and field f
ErrorRecord(i, f) ==
    [case_id |-> records[i].case_id, note_id |-> records[i].note_id,
     note_type |-> records[i].note_type, note_date |-> records[i].note_date,
     field |-> f,
     gt_value_raw |-> records[i].gt[f],
     pred_value_raw |-> records[i].pred[f],
     gt_value_norm |-> normalize_for_field(f, records[i].gt[f]),
     pred_value_norm |-> normalize_for_field(f, records[i].pred[f]),
     evidence |-> records[i].evidence[f]]

---------------------------------------------------------------------------
(* The stage taken from an entity                                          *)

\* the stage-like Cancer entities of the list
StageEntities == {k \in 1..Len(entities) : is_stage_entity(entities[k])}

\* the value that the text of a stage-like entity stands for: the upper-cased
\* code that the stage-keyword pattern finds in it, or else the text itself
StageEntityValue(e) ==
    LET inner == StageKwSearch(Strip(Get(e.text)))
    IN  IF IsNone(inner) THEN e.text ELSE Some(Get(inner).code)

\* C24: when infer_stage takes its value from a Cancer entity whose text
\* begins with "stage", the value is the upper-cased code that the
\* stage-keyword pattern finds in the entity's text, or the entity's text if
\* the pattern finds none there; the evidence span is the entity's span.
C24_StageFromEntity ==
    (/\ op = "infer_stage"
     /\ IsNone(StageKwSearch(note_text))
     /\ StageEntities # {})
        => \E k \in StageEntities :
              /\ \A j \in StageEntities :
                    Get(Confidence(entities[j])) <= Get(Confidence(entities[k]))
              /\ pred = FieldPrediction(StageEntityValue(entities[k]),
                                        entities[k].start, entities[k].end)

\* an entity whose text holds no code, returned as it is with its span
C24_Witness ==
    /\ op = "infer_stage" /\ IsNone(StageKwSearch(note_text))
    /\ StageEntities # {}
    /\ \E k \in StageEntities :
          /\ IsNone(StageKwSearch(Get(entities[k].text)))
          /\ pred = FieldPrediction(entities[k].text, entities[k].start, entities[k].end)

---------------------------------------------------------------------------
(* The biomarker fields in compute_metrics                                 *)

\* the position of field f in DEFAULT_FIELDS
FieldIndex(f) == CHOOSE k \in 1..Len(DEFAULT_FIELDS) : DEFAULT_FIELDS[k] = f

\* the records in which neither a ground truth nor a prediction is given for f
BothMissing(f) == {i \in 1..Len(records) : Blank(records[i].gt[f]) /\ Blank(records[i].pred[f])}

\* C27: for er_status, pr_status and her2_status neither normalized value is
\* ever null, so every record counts toward support, a record with neither
\* ground truth nor prediction counts as correct, the false-negative count is
\* 0, and recall is 1 when some record is correct and 0 otherwise.
C27_BiomarkersNeverSkipped ==
    ~IsNone(metrics) =>
        \A f \in BiomarkerFields :
            LET row == Get(metrics)[FieldIndex(f)]
            IN  /\ \A i \in 1..Len(records) :
                      /\ normalize_for_field(f, records[i].gt[f]) # None
                      /\ normalize_for_field(f, records[i].pred[f]) # None
                /\ row.field = f
                /\ row.support = Len(records)
                /\ BothMissing(f) \subseteq {i \in 1..Len(records) : Agree(f, i)}
                /\ row.correct >= Cardinality(BothMissing(f))
                /\ Get(tally)[f].fn = 0
                /\ row.recall = IF row.correct > 0 THEN 1000 ELSE 0

\* a frame with a record that gives nothing for a marker and is counted
\* correct, beside a marker for which one record of two is wrong and recall is 1
C27_Witness ==
    /\ ~IsNone(metrics) /\ Len(records) = 2
    /\ \E f \in BiomarkerFields :
          /\ BothMissing(f) # {}
          /\ Get(metrics)[FieldIndex(f)].correct > 0
          /\ Get(metrics)[FieldIndex(f)].recall = 1000
    /\ \E f \in BiomarkerFields :
          /\ Get(metrics)[FieldIndex(f)].support = 2
          /\ Get(metrics)[FieldIndex(f)].correct = 1
          /\ Get(metrics)[FieldIndex(f)].precision = 500
          /\ Get(metrics)[FieldIndex(f)].recall = 1000

---------------------------------------------------------------------------
(* evidence_span on predictions of any span                                *)

MaxSnippetWords == 3

SnippetWords == {
    <<"a">>,
    <<" ">>,
    <<"\n">>,
    LongRun }

SnippetNotes == Texts(SnippetWords, MaxSnippetWords)

\* the offsets of t at which a span may start or end: the ends of the text,
\* the edges of its words, and the offsets a long run apart
Cuts(t) ==
    {k \in 0..Len(t) :
        \/ k = Len(t) \/ k % LongRunLen = 0
        \/ (k > 0 /\ IsAlnum(t[k]) # IsAlnum(t[k + 1]))}

OptionalCuts(t) == {None} \cup {Some(k) : k \in Cuts(t)}

\* FieldPrediction(value, evidence_start, evidence_end) with an in-range span,
\* or with an offset that is None
SnippetPredictions(t) ==
    {FieldPrediction(Some(<<"x">>), a, b) : a, b \in OptionalCuts(t)}
        \ {FieldPrediction(Some(<<"x">>), Some(z[1]), Some(z[2])) :
              z \in {y \in Cuts(t) \X Cuts(t) : y[1] > y[2]}}

InitSnippet ==
    /\ op = "input" /\ field = "none"
    /\ note_text \in SnippetNotes /\ entities = <<>>
    /\ pred = EmptyPrediction /\ snippet = None /\ record = Raise /\ signal = FALSE
    /\ NormIdle /\ EvalIdle /\ PipeIdle

\* a prediction is constructed for the note
Predict ==
    /\ op = "input"
    /\ op' = "FieldPrediction"
    /\ pred' \in SnippetPredictions(note_text)
    /\ UNCHANGED <<note_text, entities, field, snippet, record, signal>>
    /\ UNCHANGED normVars
    /\ UNCHANGED evalVars
    /\ UNCHANGED pipeVars

NextSnippet == Predict \/ EvidenceSpan

SpecSnippet == InitSnippet /\ [][NextSnippet]_vars

\* the whitespace-collapsed window of a prediction with both offsets
CollapsedWindow(p, t) ==
    Strip(CollapseBlanks(JoinLines(NormalizeNewlines(
        Slice(t, WindowStart(t, Get(p.evidence_start)), WindowEnd(t, Get(p.evidence_end)))))))

\* C25: for every note and every in-range span [s, e), the raw window
\* [start, end) that evidence_span cuts contains [s, e), starts at most 80
\* characters before s and ends at most 80 characters after e, and on exit
\* start is 0, or s - 80, or note_text[start] is not alphanumeric, and end is
\* len(note_text), or e + 80, or note_text[end - 1] is not alphanumeric; both
\* loops stop within the 40 steps between the base window and the cap, and the
\* snippet is that window, collapsed and truncated.
C25_WordBoundaryWindow ==
    (op = "evidence_span" /\ BothPresent(pred)) =>
        LET s == Get(pred.evidence_start)
            e == Get(pred.evidence_end)
            start == WindowStart(note_text, s)
            end == WindowEnd(note_text, e)
        IN  /\ 0 <= start /\ start <= s /\ e <= end /\ end <= Len(note_text)
            /\ s - start <= WindowCap /\ end - e <= WindowCap
            /\ \/ start = 0
               \/ start = s - WindowCap
               \/ (start < Len(note_text) /\ ~IsAlnum(note_text[start + 1]))
            /\ \/ end = Len(note_text)
               \/ end = e + WindowCap
               \/ (end > 0 /\ ~IsAlnum(note_text[end]))
            /\ Max(0, s - BaseWindow) - start <= WindowCap - BaseWindow
            /\ end - Min(Len(note_text), e + BaseWindow) <= WindowCap - BaseWindow
            /\ snippet = Some(Truncate(CollapsedWindow(pred, note_text), DefaultMaxLen))

\* a span after a long run: the left loop stops at the cap, s - 80, inside the
\* run, and the right loop stops at the end of the text
C25_Witness ==
    /\ op = "evidence_span" /\ BothPresent(pred)
    /\ Get(pred.evidence_start) > WindowCap
    /\ WindowStart(note_text, Get(pred.evidence_start)) = Get(pred.evidence_start) - WindowCap
    /\ IsAlnum(note_text[WindowStart(note_text, Get(pred.evidence_start)) + 1])
    /\ WindowEnd(note_text, Get(pred.evidence_end)) = Len(note_text)
    /\ snippet # None

\* C23: evidence_span returns None exactly when an offset is absent; with both
\* offsets present it returns a non-empty string of at most max_len (160)
\* characters: the collapsed window cut to max_len - 3 characters,
\* right-stripped, with "..." appended when it is longer than max_len, and the
\* collapsed window itself otherwise.
C23_BoundedNonEmptySnippet ==
    (op = "evidence_span") =>
        /\ (snippet = None) <=> ~BothPresent(pred)
        /\ BothPresent(pred) =>
            LET w == CollapsedWindow(pred, note_text)
                s == Get(snippet)
            IN  /\ Len(s) >= 1 /\ Len(s) <= DefaultMaxLen
                /\ IF Len(w) > DefaultMaxLen
                   THEN s = RStrip(Slice(w, 0, DefaultMaxLen - 3)) \o Ellipsis
                   ELSE s = w

\* a span in a note of whitespace only: the snippet is the empty string
C23_Witness ==
    /\ op = "evidence_span" /\ BothPresent(pred)
    /\ Len(note_text) > 0
    /\ snippet = Some(<<>>)

---------------------------------------------------------------------------
(* _pick_best on lists of several qualifying entities                      *)

MaxPickEnts == 2

\* entities that qualify for the site, the histology and the stage at once,
\* two of them with the same confidence, one without a confidence, one with
\* confidence 0, one with a confidence of None; an entity with no "start";
\* an entity no extractor looks at
PickPool == {
    Entity("Cancer", <<"s","t","a","g","e"," ","i","i"," ","b","r","e","a","s","t"," ","c","a","r","c","i","n","o","m","a">>, 80, 0, 3),
    Entity("Cancer", <<"s","t","a","g","e"," ","i","v"," ","l","u","n","g"," ","s","a","r","c","o","m","a">>, 80, 4, 6),
    Entity("Cancer", <<"s","t","a","g","e"," ","i"," ","c","o","l","o","n"," ","l","y","m","p","h","o","m","a">>, 90, 1, 2),
    Entity("Cancer", <<"s","t","a","g","e"," ","x"," ","c","o","l","o","n"," ","c","a","r","c","i","n","o","m","a">>, 0, 3, 4),
    [label |-> Some("Cancer"), text |-> Some(<<"s","t","a","g","e"," ","i","i","i"," ","s","i","g","m","o","i","d"," ","c","a","r","c","i","n","o","m","a">>),
     start |-> Some(2), end |-> Some(5)],
    [label |-> Some("Cancer"), text |-> Some(<<"s","t","a","g","e"," ","i"," ","l","u","n","g"," ","l","y","m","p","h","o","m","a">>),
     confidence |-> None, start |-> Some(5), end |-> Some(6)],
    [label |-> Some("Organ"), text |-> Some(<<"l","u","n","g">>), confidence |-> Some(60),
     end |-> Some(4)],
    Entity("Drug", <<"a","s","p","i","r","i","n">>, 95, 0, 1) }

PickLists == SeqsUpTo(PickPool, MaxPickEnts)

PickNotes == {<<>>, <<"c","o","l","o","n"," ","s","a","r","c","o","m","a"," ","T","1","N","0","M","0">>}

InitPick ==
    /\ op = "input" /\ field = "none"
    /\ note_text \in PickNotes /\ entities \in PickLists
    /\ pred = EmptyPrediction /\ snippet = None /\ record = Raise /\ signal = FALSE
    /\ NormIdle /\ EvalIdle /\ PipeIdle

NextPick == InferPrimarySite \/ InferHistology \/ InferStage

SpecPick == InitPick /\ [][NextPick]_vars

EntityOps == {"infer_primary_site", "infer_histology", "infer_stage"}

\* the entities of the list that satisfy the extractor's predicate
Qualifying(f, ents) ==
    {i \in 1..Len(ents) :
        CASE f = "primary_site" -> has_site_keyword(ents[i])
          [] f = "histology" -> is_histology(ents[i])
          [] f = "stage" -> is_stage_entity(ents[i])}

NoTie(f, ents) ==
    \A i, j \in Qualifying(f, ents) : i # j => Confidence(ents[i]) # Confidence(ents[j])

Comparable(f, ents) == \A i \in Qualifying(f, ents) : ~IsNone(Confidence(ents[i]))

Perms(n) == {p \in [1..n -> 1..n] : \A i, j \in 1..n : p[i] = p[j] => i = j}
Permute(ents, p) == [i \in 1..Len(ents) |-> ents[p[i]]]

\* C26: when no entity satisfies the predicate the extractor goes on as with
\* no entity at all (_pick_best returned None); otherwise it builds its result
\* from the earliest-listed entity among the qualifying ones of maximal
\* confidence, a missing confidence counting as 0; and when no two qualifying
\* entities have the same confidence, the result of infer_primary_site,
\* infer_histology and infer_stage is the same for every permutation of the
\* entity list.
C26_TieBreaking ==
    (op \in EntityOps) =>
        LET q == Qualifying(field, entities)
            conf(i) == Get(Confidence(entities[i]))
        IN  /\ q = {} => pred = Extract(field, note_text, <<>>)
            /\ Cardinality(q) = 1 => \E k \in q : pred = FromEntity(entities[k])
            /\ (q # {} /\ Comparable(field, entities)) =>
                  \E k \in q :
                      /\ \A j \in q : conf(j) <= conf(k)
                      /\ \A j \in q : j < k => conf(j) < conf(k)
                      /\ pred = FromEntity(entities[k])
            /\ NoTie(field, entities) =>
                  \A p \in Perms(Len(entities)) :
                      Extract(field, note_text, Permute(entities, p)) = pred

\* a tie between an entity without a confidence and one of confidence 0: the
\* earlier one is returned, and the list in the other order gives the other
C26_Witness ==
    /\ op \in EntityOps /\ Len(entities) = 2
    /\ Qualifying(field, entities) = {1, 2}
    /\ "confidence" \notin DOMAIN entities[1]
    /\ ~NoTie(field, entities)
    /\ pred = FromEntity(entities[1])
    /\ Extract(field, note_text, <<entities[2], entities[1]>>) = FromEntity(entities[2])
    /\ FromEntity(entities[2]) # pred

---------------------------------------------------------------------------
(* generate_preabstract_csv on notes files in any order                    *)

MaxPipeNotes == 2

NoteRow(case_id, note_id, text) ==
    [case_id |-> case_id, note_id |-> note_id, note_type |-> "pathology",
     note_date |-> "2024-01-01", note_text |-> text]

PipeRows == {
    NoteRow("c1", "n1", <<"E","R"," ","n","e","g","a","t","i","v","e"," ","b","r","e","a","s","t">>),
    NoteRow("c1", "n2", <<"I","V">>),
    NoteRow("c2", "n1", <<"l","u","n","g">>) }

PipeKeys == {<<r.case_id, r.note_id>> : r \in PipeRows}

\* the lines of the entities file: a well-formed entity, an entity with no
\* "start", and a line with no "entities"
PipeEntRecords == {
    [entities |-> <<Entity("Organ", <<"L","e","f","t"," ","b","r","e","a","s","t">>, 90, 0, 2)>>],
    [entities |-> <<[label |-> Some("Organ"), text |-> Some(<<"l","u","n","g">>),
                     confidence |-> Some(60), end |-> Some(4)]>>],
    [model |-> "ner"] }

\* the notes file: distinct rows in any order
PipeFrames ==
    {df \in SeqsUpTo(PipeRows, MaxPipeNotes) :
        \A i, j \in 1..Len(df) : df[i] = df[j] => i = j}

PipeMaps == UNION {[K -> PipeEntRecords] : K \in SUBSET PipeKeys}

InitPipeline ==
    /\ op = "input" /\ field = "none"
    /\ df_notes \in PipeFrames /\ entities_map \in PipeMaps
    /\ out = None /\ pnorm = None /\ summary = None
    /\ NoteIdle /\ NormIdle /\ EvalIdle

GeneratePreabstractCsv ==
    /\ op = "input"
    /\ op' = "generate_preabstract_csv"
    /\ out' = generate_preabstract_csv(df_notes, entities_map)
    /\ UNCHANGED <<field, df_notes, entities_map, pnorm, summary>>
    /\ UNCHANGED noteVars
    /\ UNCHANGED normVars
    /\ UNCHANGED evalVars

NextPipeline == GeneratePreabstractCsv

SpecPipeline == InitPipeline /\ [][NextPipeline]_vars

IdentityColumns == {"case_id", "note_id", "note_type", "note_date", "note_text"}
MappedKeys == {PredKey(f) : f \in FieldSet} \cup {EvidenceKey(f) : f \in FieldSet}

\* the entity list the claim gives a note: its record's, or the empty list
NoteEntities(row) ==
    IF <<row.case_id, row.note_id>> \in DOMAIN entities_map
           /\ "entities" \in DOMAIN entities_map[<<row.case_id, row.note_id>>]
    THEN entities_map[<<row.case_id, row.note_id>>].entities
    ELSE <<>>

\* C21: for every notes file and entities file, generate_preabstract_csv
\* emits one row per note, in order; the row keeps the note's identity
\* columns and adds exactly the twelve keys <field>_pred and
\* <field>_evidence that map_note_to_fields returns for the note's text and
\* entity list (the empty list for a note with no entity record), where
\* <field>_pred is the value of the field's extractor and <field>_evidence is
\* that prediction's evidence_span over the same text.
C21_MapperSchema ==
    (op = "generate_preabstract_csv") =>
        /\ ~IsRaise(out)
        /\ Len(out.rows) = Len(df_notes)
        /\ \A i \in 1..Len(df_notes) :
              LET row == df_notes[i]
                  o == out.rows[i]
              IN  /\ DOMAIN o = IdentityColumns \cup MappedKeys
                  /\ Cardinality(DOMAIN o \ IdentityColumns) = 12
                  /\ \A c \in IdentityColumns : o[c] = row[c]
                  /\ \A f \in FieldSet :
                        LET p == Extract(f, row.note_text, NoteEntities(row))
                        IN  /\ ~IsRaise(p)
                            /\ o[PredKey(f)] = p.value
                            /\ o[EvidenceKey(f)] = evidence_span(p, row.note_text, DefaultMaxLen)

\* two notes, one with a well-formed entity and one with no entity record:
\* both rows are written with the twelve keys
C21_Witness ==
    /\ op = "generate_preabstract_csv" /\ ~IsRaise(out)
    /\ Len(df_notes) = 2 /\ Len(out.rows) = 2
    /\ \E i, j \in 1..2 :
          /\ <<df_notes[i].case_id, df_notes[i].note_id>> \notin DOMAIN entities_map
          /\ NoteEntities(df_notes[j]) # <<>>
          /\ out.rows[j].primary_site_pred = NoteEntities(df_notes[j])[1].text
          /\ out.rows[i].case_id = df_notes[i].case_id
    /\ \A i \in 1..2 : DOMAIN out.rows[i] = IdentityColumns \cup MappedKeys

\* what the run gives for one note when the notes file holds that note alone
Alone(row) == generate_preabstract_csv(<<row>>, entities_map)

\* C22: for notes processed in any order, every note's record is the record
\* the note gets when it is processed alone: whenever a note alone yields a
\* record, the run over the whole file yields that record for it.
C22_OrderIndependence ==
    (op = "generate_preabstract_csv") =>
        \A i \in 1..Len(df_notes) :
            ~IsRaise(Alone(df_notes[i])) =>
                /\ ~IsRaise(out)
                /\ out.rows[i] = Alone(df_notes[i]).rows[1]

\* a completed run over two notes: each row is the row of the note alone
C22_Witness ==
    /\ op = "generate_preabstract_csv" /\ ~IsRaise(out)
    /\ Len(df_notes) = 2
    /\ df_notes[1].note_id = "n2"
    /\ \A i \in 1..2 : out.rows[i] = Alone(df_notes[i]).rows[1]
    /\ out.rows[1] # out.rows[2]

---------------------------------------------------------------------------
(* The two evaluators side by side                                         *)

MaxAgreeWords == 2

AgreeValues == {None} \cup {Some(t) : t \in Texts(ValueWords, MaxAgreeWords)}

InitAgree ==
    \/ /\ op = "input" /\ field \in FieldSet \cup {"laterality"}
       /\ value \in AgreeValues /\ norm1 = None /\ norm2 = None
       /\ NoteIdle /\ EvalIdle /\ PipeIdle
    \/ InitEval

\* pipeline.normalize_for_field on the value evaluation.normalize_for_field was given
PipelineNormalize ==
    /\ op = "normalize_for_field"
    /\ op' = "pipeline.normalize_for_field"
    /\ pnorm' = pipeline_normalize_for_field(field, value)
    /\ UNCHANGED <<field, df_notes, entities_map, out, summary>>
    /\ UNCHANGED noteVars
    /\ UNCHANGED normVars
    /\ UNCHANGED evalVars

\* evaluate_preabstract on the frame compute_metrics was given
EvaluatePreabstract ==
    /\ op = "compute_metrics"
    /\ op' = "evaluate_preabstract"
    /\ summary' = Some(evaluate_preabstract(records, DEFAULT_FIELDS))
    /\ UNCHANGED <<field, df_notes, entities_map, out, pnorm>>
    /\ UNCHANGED noteVars
    /\ UNCHANGED normVars
    /\ UNCHANGED evalVars

NextAgree ==
    \/ (field # "none" /\ Normalize)
    \/ PipelineNormalize
    \/ (field = "none" /\ ComputeMetrics)
    \/ EvaluatePreabstract

SpecAgree == InitAgree /\ [][NextAgree]_vars

AllGated == \A i \in 1..Len(records) : stage_signal_present(records[i].note_text)

\* C28: pipeline.normalize_for_field and evaluation.normalize_for_field return
\* the same result for every field and value; and for every frame,
\* evaluate_preabstract's total_cases and correct equal compute_metrics'
\* support and correct for every field other than stage, and for stage when
\* every row's note passes the stage gate; otherwise its stage total_cases is
\* at least compute_metrics' stage support.
C28_EvaluatorsAgree ==
    /\ op = "pipeline.normalize_for_field" => pnorm = norm1
    /\ op = "evaluate_preabstract" =>
          \A k \in 1..Len(DEFAULT_FIELDS) :
              LET m == Get(metrics)[k]
                  s == Get(summary)[k]
              IN  /\ s.field = DEFAULT_FIELDS[k] /\ m.field = DEFAULT_FIELDS[k]
                  /\ (DEFAULT_FIELDS[k] # "stage" \/ AllGated) =>
                        (s.total_cases = m.support /\ s.correct = m.correct)
                  /\ s.total_cases >= m.support

\* a frame with a staged row whose note does not pass the gate:
\* evaluate_preabstract counts it for stage and compute_metrics does not, and
\* the two agree on a field with scored rows
C28_Witness ==
    /\ op = "evaluate_preabstract" /\ ~AllGated
    /\ Get(summary)[FieldIndex("stage")].total_cases > Get(metrics)[FieldIndex("stage")].support
    /\ Get(summary)[FieldIndex("primary_site")].total_cases > 0
    /\ Get(summary)[FieldIndex("primary_site")].total_cases = Get(metrics)[FieldIndex("primary_site")].support
    /\ Get(summary)[FieldIndex("primary_site")].correct = Get(metrics)[FieldIndex("primary_site")].correct
    /\ Get(summary)[FieldIndex("primary_site")].correct < Get(summary)[FieldIndex("primary_site")].total_cases
===========================================================================
